---- MODULE Spec2Model ----
(***************************************************************************)
(* The stacks-signer run loop (stacks-signer/src/runloop.rs) as a state    *)
(* machine.  One step of the machine is one call of run_one_pass: the      *)
(* command is queued, the signer is initialised when needed, the event is  *)
(* handled and process_next_command runs.  The WSTS coordinator and        *)
(* signer, the chain node and the slot store are external: what they       *)
(* return is an input of the pass.                                         *)
(*                                                                         *)
(* Option<T> is modelled as a sequence: <<>> is None and <<v>> is Some(v). *)
(* Result<T, E> likewise: <<>> is Err and <<v>> is Ok(v).                  *)
(* Byte vectors are sequences of numbers.                                  *)
(***************************************************************************)
EXTENDS Integers, Sequences, FiniteSets, TLC

VARIABLES
    state,          \* RunLoop::state
    commands,       \* RunLoop::commands
    blocks,         \* RunLoop::blocks: a function from the hashes present
    transactions,   \* RunLoop::transactions
    coord_msg,      \* the coordinator's active message (Coordinator::get_message)
    coord_key,      \* the coordinator's aggregate public key, an Option
    pc,             \* where the driver is: "ready" to call run_one_pass, "passed"
                    \* (it returned), "spinning" (it never returns) or "panicked"
    submitted_ever, \* the hashes given to submit_block_for_validation so far
    accepted_ever,  \* the hashes a BlockResponse::Accepted was published for so far
    \* The history TrackedSpec keeps:
    started_ever,   \* the hashes start_signing_round has succeeded for so far
    unknown_pending, \* the hashes whose entry a nonce request for an unknown block
                    \* has created, while the table holds the hash and until its
                    \* verdict comes
    \* What the last pass did:
    published,      \* its calls of send_message_with_retry
    crypto_in,      \* the packets it handed to handle_packets
    submitted,      \* the blocks it gave to submit_block_for_validation
    started,        \* its calls of start_dkg_round and start_signing_round
    ssr_log,        \* the signature share requests it validated
    accept_log,     \* at each Accepted it published: the hash, the entry's vote and
                    \* the coordinator's message
    assigned,       \* its assignments to RunLoop::state: from, to and where
    popped,         \* the commands it popped, with the state they were popped in
    results_log,    \* the operation results processed, as process_operation_result found them
    init_log,       \* its call of initialize: what the node returned, the queue
                    \* before and after
    handled,        \* its event, with the RunLoop before and after the handler and
                    \* whether the handler left the block table as it was
    elected,        \* calls of calculate_coordinator made on their own: the order
                    \* the signers were iterated in, what the node reported, the
                    \* state of the RunLoop and the result
    \* The SignerEventReceiver (libsigner/src/events.rs):
    http_server,    \* SignerEventReceiver::http_server, an Option: the port it listens on
    local_addr,     \* SignerEventReceiver::local_addr, an Option: the port given to bind
    out_channels,   \* SignerEventReceiver::out_channels: for each Sender whether its
                    \* Receiver is alive (open) and what it has been sent (received)
    stop_signal,    \* SignerEventReceiver::stop_signal
    incoming,       \* the requests the listener has accepted and recv has not returned
    arrivals,       \* how many requests have arrived so far
    loop_pc,        \* where main_loop is: "unstarted", "top" (of the loop), "recv"
                    \* (blocked in http_server.recv), "handling" (recv has returned
                    \* the request in current) or "exited"
    current,        \* the request being handled, an Option
    exit_reason,    \* why main_loop exited
    answered,       \* the requests next_event handled: the response it gave, an
                    \* Option, and what it returned
    returned,       \* what the last call of bind, next_event or get_stop_signaler
                    \* made outside main_loop returned, an Option
    driver,         \* the thread that owns the receiver: "running" or "panicked"
    \* The StacksClient (stacks-signer/src/client/stacks_client.rs):
    requested       \* its calls made on their own: the call, the response of the
                    \* node and what the call returned

core_vars == <<state, commands, blocks, transactions, coord_msg, coord_key,
               submitted_ever, accepted_ever, started_ever, unknown_pending>>
pass_vars == <<published, crypto_in, submitted, started, ssr_log, accept_log,
               assigned, popped, results_log, init_log, handled>>
receiver_vars == <<http_server, local_addr, out_channels, stop_signal, incoming,
                   arrivals, loop_pc, current, exit_reason, answered, returned, driver>>
vars == <<core_vars, pc, pass_vars, elected, receiver_vars, requested>>

(***************************************************************************)
(* Bounds of the model                                                     *)
(***************************************************************************)
MaxQueue == 1       \* longest command queue explored
MaxProposed == 2    \* most blocks in one ProposedBlocks event
MaxTxids == 2       \* longest list of expected transactions given to determine_vote alone
MaxElections == 2   \* most calls of calculate_coordinator made on their own
MaxSlots == 2       \* most calls of slot_id made on their own
MaxRequests == 2    \* most requests the node posts to the event receiver
MaxConsumers == 2   \* most consumers added to the event receiver
MaxCalls == 2       \* most calls of the chain-node client made on their own

(***************************************************************************)
(* Blocks, hashes and byte strings                                         *)
(***************************************************************************)
HashLen == 32
VoteNoByte == 110

\* A block whose signer_signature_hash() is Ok, and one for which it is Err.
GoodBlocks == {1}
BadBlocks == {2}
AllBlocks == GoodBlocks \cup BadBlocks

\* block.txs, as transaction ids: block 1 carries transaction 7.
block_txs(block) == IF block = 1 THEN <<7>> ELSE <<>>

\* NakamotoBlockHeader::signer_signature_hash, a Result: 32 bytes that identify the block.
signer_signature_hash(block) ==
    IF block \in GoodBlocks THEN << [i \in 1..HashLen |-> block] >> ELSE <<>>

Hashes == {signer_signature_hash(b)[1] : b \in GoodBlocks}

\* StacksMessageCodec::serialize_to_vec of a block: a tag byte and a body, longer
\* than a vote.
serialize_to_vec(block) == [i \in 1..(HashLen + 4) |-> IF i = 1 THEN 255 ELSE block]

\* read_next::<NakamotoBlock, _>(..).ok(): the block a byte string starts with.
read_next(bytes) ==
    LET fits(b) == /\ Len(bytes) >= Len(serialize_to_vec(b))
                   /\ SubSeq(bytes, 1, Len(serialize_to_vec(b))) = serialize_to_vec(b)
    IN  IF \E b \in AllBlocks : fits(b)
        THEN << CHOOSE b \in AllBlocks : fits(b) >>
        ELSE <<>>

\* Sha512Trunc256Sum::from_bytes: Some exactly for 32 bytes.
from_bytes(bytes) == IF Len(bytes) = HashLen THEN <<bytes>> ELSE <<>>

unwrap_or(opt, default) == IF opt = <<>> THEN default ELSE opt[1]

\* HashMap::insert and HashMap::remove
Put(map, key, value) == [k \in DOMAIN map \cup {key} |-> IF k = key THEN value ELSE map[k]]
Remove(map, key) == [k \in DOMAIN map \ {key} |-> map[k]]
EmptyMap == [k \in {} |-> 0]

(***************************************************************************)
(* BlockInfo                                                               *)
(***************************************************************************)
BlockInfo_new(block) ==
    [block |-> block, vote |-> <<>>, valid |-> <<>>, nonce_request |-> <<>>,
     signing_round |-> FALSE]

BlockInfo_new_with_request(block, nonce_request) ==
    [block |-> block, vote |-> <<>>, valid |-> <<>>,
     nonce_request |-> <<nonce_request>>, signing_round |-> TRUE]

(***************************************************************************)
(* Commands                                                                *)
(***************************************************************************)
DkgCommand == [type |-> "Dkg", block |-> 0, is_taproot |-> FALSE, merkle_root |-> <<>>]
SignCommand(block, is_taproot, merkle_root) ==
    [type |-> "Sign", block |-> block, is_taproot |-> is_taproot,
     merkle_root |-> merkle_root]

(***************************************************************************)
(* Slots (libsigner/src/events.rs)                                         *)
(***************************************************************************)
SIGNER_SLOTS_PER_USER == 11
BLOCK_SLOT_ID == 10

message_slot_offset(kind) ==
    CASE kind = "DkgBegin" -> 0
      [] kind = "DkgPrivateBegin" -> 1
      [] kind = "DkgEndBegin" -> 2
      [] kind = "DkgEnd" -> 3
      [] kind = "DkgPublicShares" -> 4
      [] kind = "DkgPrivateShares" -> 5
      [] kind = "NonceRequest" -> 6
      [] kind = "NonceResponse" -> 7
      [] kind = "SignatureShareRequest" -> 8
      [] kind = "SignatureShareResponse" -> 9
      [] kind = "BlockResponse" -> BLOCK_SLOT_ID

\* A u32 is two halves of 16 bits.
HalfWord == 65536

\* SIGNER_SLOTS_PER_USER * id + slot_id in u32: the upper half before it is cut
\* to 16 bits, and the lower half with its carry.
slot_id_low(kind, id) == SIGNER_SLOTS_PER_USER * (id % HalfWord) + message_slot_offset(kind)
slot_id_high(kind, id) ==
    SIGNER_SLOTS_PER_USER * (id \div HalfWord) + (slot_id_low(kind, id) \div HalfWord)

\* Whether the arithmetic of slot_id overflows u32: a build with overflow checks
\* panics, a build without wraps.
slot_id_overflows(kind, id) == slot_id_high(kind, id) >= HalfWord

\* SignerMessage::slot_id, as a build without overflow checks computes it.
slot_id(kind, id) ==
    (slot_id_high(kind, id) % HalfWord) * HalfWord + (slot_id_low(kind, id) % HalfWord)

(***************************************************************************)
(* Signers and coordinator election                                        *)
(***************************************************************************)
\* This signer's id (self.signing_round.signer_id), and the registered signers.
signer_id == 1
SignerIds == {0, 1}
public_key(id) == id + 1

\* The consensus hashes the node may report; <<>> is a failed query.
ConsensusHashes == {1, 4}
TipResults == {<<>>} \cup {<<ch>> : ch \in ConsensusHashes}

\* A variant of Sha256Sum that gives every buffer the same digest.
Sha256Sum_of_nothing(buffer) == 0

\* Sha256Sum::from_data over pk_bytes || consensus_hash, as a one-byte digest.
Sha256Sum(buffer) == (buffer[1] * 5 + buffer[2] * 3) % 7

\* The public keys are kept in a HashMap: order is the order it is iterated in.
IterationOrders == {<<0, 1>>, <<1, 0>>}

\* A variant of calculate_coordinator that takes the first signer iterated.
calculate_coordinator_first_iterated(order, tip) ==
    IF tip = <<>> THEN <<0, public_key(0)>>
    ELSE <<order[1], public_key(order[1])>>

calculate_coordinator(order, tip) ==
    IF tip = <<>> THEN <<0, public_key(0)>>
    ELSE LET digest(id) == Sha256Sum(<<public_key(id), tip[1]>>)
             \* a stable sort puts first the earliest entry of the least digest
             first == CHOOSE i \in 1..Len(order) :
                         /\ \A j \in 1..Len(order) : digest(order[i]) <= digest(order[j])
                         /\ \A j \in 1..(i - 1) : digest(order[j]) > digest(order[i])
         IN  <<order[first], public_key(order[first])>>

(***************************************************************************)
(* The run loop.  Its operations are functions of a record s holding the   *)
(* fields of the RunLoop and the record of what the pass has done so far.  *)
(***************************************************************************)

\* StackerDB::send_message_with_retry: the message and the slot it is written to.
send_message_with_retry(s, message) ==
    [s EXCEPT !.published =
        Append(@, [slot |-> slot_id(message.kind, signer_id)] @@ message)]

\* A wsts packet published as SignerMessage::Packet.
PacketMessage(kind) ==
    [kind |-> kind, response |-> "", block |-> 0, code |-> "", signer_signature |-> <<>>]
\* SignerMessage::BlockResponse: Accepted(block), or Rejected with a reject code.
BlockResponseMessage(response, block, code) ==
    [kind |-> "BlockResponse", response |-> response, block |-> block, code |-> code,
     signer_signature |-> <<>>]

\* StacksClient::submit_block_for_validation
submit_block_for_validation(s, block) ==
    LET hash == signer_signature_hash(block) IN
    [s EXCEPT !.submitted = Append(@, block),
              !.submitted_ever = IF hash = <<>> THEN @ ELSE @ \cup {hash[1]}]

\* A variant of broadcast_signature_hash_rejection that publishes nothing.
broadcast_signature_hash_rejection_to_nobody(s, block) == s

\* Broadcast a block rejection due to an invalid block signature hash
broadcast_signature_hash_rejection(s, block) ==
    send_message_with_retry(s,
        BlockResponseMessage("Rejected", block, "InvalidSignatureHash"))

\* A variant of determine_vote that does not look at the expected transactions.
determine_vote_by_validity(block_info, nonce_request, txids, hash) ==
    LET vote_bytes == IF ~unwrap_or(block_info.valid, FALSE)
                      THEN Append(hash, VoteNoByte)
                      ELSE hash
    IN  [block_info |-> [block_info EXCEPT !.vote = <<vote_bytes>>],
         request |-> [nonce_request EXCEPT !.message = vote_bytes]]

\* Determine the vote for a block and update the block info and nonce request.
determine_vote(block_info, nonce_request, txids, hash) ==
    LET txs == block_txs(block_info.block)
        all_present == \A i \in 1..Len(txids) : \E j \in 1..Len(txs) : txs[j] = txids[i]
        vote_bytes == IF ~unwrap_or(block_info.valid, FALSE) \/ ~all_present
                      THEN Append(hash, VoteNoByte)
                      ELSE hash
    IN  [block_info |-> [block_info EXCEPT !.vote = <<vote_bytes>>],
         request |-> [nonce_request EXCEPT !.message = vote_bytes]]

\* A variant of validate_nonce_request that votes on a known block whether or
\* not its verdict has come.
validate_nonce_request_without_verdict(s, request) ==
    LET decoded == read_next(request.message)
        reject == [s |-> s, ok |-> FALSE, request |-> request]
    IN
    IF decoded = <<>> THEN reject
    ELSE
    LET block == decoded[1]
        hashed == signer_signature_hash(block)
    IN
    IF hashed = <<>> THEN reject
    ELSE
    LET hash == hashed[1] IN
    IF hash \notin DOMAIN s.blocks
    THEN [s |-> submit_block_for_validation(
                    [s EXCEPT !.blocks =
                        Put(@, hash, BlockInfo_new_with_request(block, request)),
                              !.unknown_pending = @ \cup {hash}],
                    block),
          ok |-> FALSE, request |-> request]
    ELSE LET voted == determine_vote(s.blocks[hash], request, transactions, hash)
         IN  [s |-> [s EXCEPT !.blocks[hash] = voted.block_info],
              ok |-> TRUE, request |-> voted.request]

\* Validate a nonce request, updating its message: ok says whether it is forwarded.
validate_nonce_request(s, request) ==
    LET decoded == read_next(request.message)
        reject == [s |-> s, ok |-> FALSE, request |-> request]
    IN
    IF decoded = <<>> THEN reject
    ELSE
    LET block == decoded[1]
        hashed == signer_signature_hash(block)
    IN
    IF hashed = <<>> THEN reject
    ELSE
    LET hash == hashed[1] IN
    IF hash \notin DOMAIN s.blocks
    THEN [s |-> submit_block_for_validation(
                    [s EXCEPT !.blocks =
                        Put(@, hash, BlockInfo_new_with_request(block, request)),
                              !.unknown_pending = @ \cup {hash}],
                    block),
          ok |-> FALSE, request |-> request]
    ELSE IF s.blocks[hash].valid = <<>>
    THEN [s |-> [s EXCEPT !.blocks[hash].nonce_request = <<request>>],
          ok |-> FALSE, request |-> request]
    ELSE LET voted == determine_vote(s.blocks[hash], request, transactions, hash)
         IN  [s |-> [s EXCEPT !.blocks[hash] = voted.block_info],
              ok |-> TRUE, request |-> voted.request]

\* A variant of hash_bytes that takes the hash of any 33 bytes.
hash_bytes_of_any_33(message) ==
    IF Len(message) = HashLen + 1 THEN <<SubSeq(message, 1, HashLen)>>
    ELSE IF Len(message) = HashLen THEN <<message>>
    ELSE <<>>

\* The hash bytes of a signature share request's message, as an Option: the
\* first 32 of 33 bytes that end with 'n', or all of 32 bytes; None is the
\* early return.
hash_bytes(message) ==
    LET message_len == Len(message) IN
    IF message_len = HashLen + 1 /\ message[HashLen + 1] = VoteNoByte
    THEN <<SubSeq(message, 1, HashLen)>>
    ELSE IF message_len = HashLen THEN <<message>>
    ELSE <<>>

\* Validate a signature share request, overwriting its message with the vote.
validate_signature_share_request(s, request) ==
    LET reject == [ok |-> FALSE, request |-> request]
        bytes == hash_bytes(request.message)
    IN
    IF bytes = <<>> THEN reject
    ELSE
    LET hashed == from_bytes(bytes[1]) IN
    IF hashed = <<>> THEN reject
    ELSE IF hashed[1] \notin DOMAIN s.blocks THEN reject
    ELSE IF s.blocks[hashed[1]].vote = <<>> THEN reject
    ELSE [ok |-> TRUE,
          request |-> [request EXCEPT !.message = s.blocks[hashed[1]].vote[1]]]

\* The vote recorded for the hash a message starts with, as an Option.
vote_of(table, message) ==
    IF Len(message) >= HashLen /\ SubSeq(message, 1, HashLen) \in DOMAIN table
    THEN table[SubSeq(message, 1, HashLen)].vote
    ELSE <<>>

\* A variant of verify_packet that does not verify the packet's signature.
verify_packet_unverified(s, packet) ==
    IF packet.kind = "SignatureShareRequest"
    THEN LET r == validate_signature_share_request(s, packet)
             logged == [s EXCEPT !.ssr_log =
                          Append(@, [message |-> packet.message,
                                     vote |-> vote_of(s.blocks, packet.message),
                                     accepted |-> r.ok])]
         IN  [s |-> logged, out |-> IF r.ok THEN <<r.request>> ELSE <<>>]
    ELSE IF packet.kind = "NonceRequest"
    THEN LET r == validate_nonce_request(s, packet)
         IN  [s |-> r.s, out |-> IF r.ok THEN <<r.request>> ELSE <<>>]
    ELSE [s |-> s, out |-> <<packet>>]

\* Verify a packet: out is the packet to forward, as an Option.
verify_packet(s, packet) ==
    IF ~packet.verifies THEN [s |-> s, out |-> <<>>]
    ELSE IF packet.kind = "SignatureShareRequest"
    THEN LET r == validate_signature_share_request(s, packet)
             logged == [s EXCEPT !.ssr_log =
                          Append(@, [message |-> packet.message,
                                     vote |-> vote_of(s.blocks, packet.message),
                                     accepted |-> r.ok])]
         IN  [s |-> logged, out |-> IF r.ok THEN <<r.request>> ELSE <<>>]
    ELSE IF packet.kind = "NonceRequest"
    THEN LET r == validate_nonce_request(s, packet)
         IN  [s |-> r.s, out |-> IF r.ok THEN <<r.request>> ELSE <<>>]
    ELSE [s |-> s, out |-> <<packet>>]

(***************************************************************************)
(* Operation results                                                       *)
(***************************************************************************)

\* A variant of block_submission that accepts whatever was signed.
block_submission_always_accepted(message, block_hash, block) ==
    BlockResponseMessage("Accepted", block, "")

\* The response to a verified signature: an approval when the hash itself was
\* signed, a rejection otherwise.
block_submission(message, block_hash, block) ==
    IF message = block_hash
    THEN BlockResponseMessage("Accepted", block, "")
    ELSE BlockResponseMessage("Rejected", block, "SignedRejection")

\* A variant of ThresholdSignature that leaves the header without a signature.
ThresholdSignature_of_nothing(signature) == <<>>

\* block.header.signer_signature = ThresholdSignature(signature.clone()): the
\* header of a proposed block carries no signature (<<>>), a signed one carries
\* the signature of the Sign result.
ThresholdSignature(signature) == <<signature>>

\* Process a signature from a signing round: result.verifies is what
\* signature.verify(aggregate_public_key, message) returns.
process_signature(s, result) ==
    IF s.coord_key = <<>> THEN s
    ELSE
    LET message == s.coord_msg
        block_hash_bytes == IF Len(message) > HashLen
                            THEN SubSeq(message, 1, HashLen)
                            ELSE message
        hashed == from_bytes(block_hash_bytes)
    IN
    IF hashed = <<>> THEN s
    ELSE IF hashed[1] \notin DOMAIN s.blocks THEN s
    ELSE
    LET block_hash == hashed[1]
        block_info == s.blocks[block_hash]
        removed == [s EXCEPT !.blocks = Remove(@, block_hash),
                             !.unknown_pending = @ \ {block_hash}]
    IN
    IF ~result.verifies THEN removed
    ELSE
    LET submission == [block_submission(message, block_hash, block_info.block)
                       EXCEPT !.signer_signature = ThresholdSignature(result)]
        logged == IF submission.response = "Accepted"
                  THEN [removed EXCEPT !.accepted_ever = @ \cup {block_hash},
                                       !.accept_log =
                                           Append(@, [hash |-> block_hash,
                                                      vote |-> block_info.vote,
                                                      message |-> message])]
                  ELSE removed
    IN  send_message_with_retry(logged, submission)

\* Process a sign error from a signing round.  The argument of unwrap_or is
\* evaluated before unwrap_or is called, so its lookup, its removal and its
\* returns happen whether or not the message decodes as a block.
process_sign_error(s, result) ==
    IF result.error # "InsufficientSigners" THEN s
    ELSE
    LET message == s.coord_msg
        decoded == read_next(message)
        block_hash_bytes == IF Len(message) > HashLen
                            THEN SubSeq(message, 1, HashLen)
                            ELSE message
        hashed == from_bytes(block_hash_bytes)
    IN
    IF hashed = <<>> THEN s
    ELSE IF hashed[1] \notin DOMAIN s.blocks THEN s
    ELSE
    LET block_info == s.blocks[hashed[1]]
        removed == [s EXCEPT !.blocks = Remove(@, hashed[1]),
                             !.unknown_pending = @ \ {hashed[1]}]
        block == unwrap_or(decoded, block_info.block)
    IN  send_message_with_retry(removed,
            BlockResponseMessage("Rejected", block, "InsufficientSigners"))

process_operation_result(s, result) ==
    LET seen == [s EXCEPT !.results =
                    Append(@, [result |-> result,
                               message |-> s.coord_msg,
                               key |-> s.coord_key,
                               table |-> {<<h, s.blocks[h].block>> : h \in DOMAIN s.blocks}])]
    IN  CASE result.type = "Sign" -> process_signature(seen, result)
          [] result.type = "SignTaproot" -> seen
          [] result.type = "Dkg" -> seen
          [] result.type = "SignError" -> process_sign_error(seen, result)
          [] result.type = "DkgError" -> seen

RECURSIVE process_operation_results(_, _)
process_operation_results(s, operation_results) ==
    IF operation_results = <<>> THEN s
    ELSE process_operation_results(
            process_operation_result(s, Head(operation_results)),
            Tail(operation_results))

RECURSIVE send_outbound_messages(_, _)
send_outbound_messages(s, outbound_messages) ==
    IF outbound_messages = <<>> THEN s
    ELSE send_outbound_messages(
            send_message_with_retry(s, PacketMessage(Head(outbound_messages))),
            Tail(outbound_messages))

(***************************************************************************)
(* The crypto layer.  crypto is what the WSTS signer and coordinator do    *)
(* with the packets: the outbound packets of each, the operation results,  *)
(* and which inbound packet's message (if any) the coordinator adopts as   *)
(* its active message.  A Dkg result comes with the aggregate key set.     *)
(***************************************************************************)
coordinator_process_inbound_messages(s, packets, crypto) ==
    [s EXCEPT !.coord_msg = IF crypto.adopt = 0 THEN @
                            ELSE packets[crypto.adopt].message,
              !.coord_key = IF \E i \in 1..Len(crypto.results) :
                                    crypto.results[i].type = "Dkg"
                            THEN <<1>> ELSE @]

\* A variant of handle_packets that sets the state to Idle whatever the
\* coordinator returns.
handle_packets_always_idle(s, packets, origin, crypto) ==
    LET coordinated == coordinator_process_inbound_messages(s, packets, crypto)
    IN  send_outbound_messages(
            send_outbound_messages(
                process_operation_results(
                    [coordinated EXCEPT
                        !.state = "Idle",
                        !.assigned = Append(@, [from |-> coordinated.state,
                                                to |-> "Idle",
                                                by |-> "handle_packets"])],
                    crypto.results),
                crypto.signer_outbound),
            crypto.coordinator_outbound)

\* Process inbound packets as both a signer and a coordinator.
handle_packets(s, packets, origin, crypto) ==
    LET seen == [s EXCEPT !.crypto_in =
                    @ \o [i \in 1..Len(packets) |->
                            [kind |-> packets[i].kind,
                             message |-> packets[i].message,
                             sign_id |-> packets[i].sign_id,
                             origin |-> origin,
                             verified |-> packets[i].verifies,
                             vote |-> vote_of(s.blocks, packets[i].message)]]]
        coordinated == coordinator_process_inbound_messages(seen, packets, crypto)
        resulted == IF crypto.results # <<>>
                    THEN process_operation_results(
                            [coordinated EXCEPT
                                !.state = "Idle",
                                !.assigned = Append(@, [from |-> coordinated.state,
                                                        to |-> "Idle",
                                                        by |-> "handle_packets"])],
                            crypto.results)
                    ELSE coordinated
    IN  send_outbound_messages(
            send_outbound_messages(resulted, crypto.signer_outbound),
            crypto.coordinator_outbound)

(***************************************************************************)
(* Events                                                                  *)
(***************************************************************************)

\* A variant of take that leaves the request in the entry.
take_and_keep(block_info) == block_info

\* Option::take on block_info.nonce_request: the entry is left with None.
take(block_info) == [block_info EXCEPT !.nonce_request = <<>>]

\* A variant of is_coordinator that takes every signer for the coordinator.
is_coordinator_always(coordinator) == TRUE

\* coordinator_id == self.signing_round.signer_id
is_coordinator(coordinator) == coordinator[1] = signer_id

\* Handle the block validate response: response.ok is Ok or Reject.
handle_block_validate_response(s, response, coordinator, crypto) ==
    LET hashed == signer_signature_hash(response.block) IN
    IF hashed = <<>> THEN broadcast_signature_hash_rejection(s, response.block)
    ELSE
    LET hash == hashed[1]
        entry == IF hash \in DOMAIN s.blocks THEN s.blocks[hash]
                 ELSE BlockInfo_new(response.block)
        marked == [s EXCEPT !.blocks = Put(@, hash, [entry EXCEPT !.valid = <<response.ok>>]),
                            !.unknown_pending = @ \ {hash}]
        told == IF response.ok THEN marked
                ELSE send_message_with_retry(marked,
                        BlockResponseMessage("Rejected", response.block, "ValidationFailed"))
        block_info == told.blocks[hash]
    IN
    IF block_info.nonce_request # <<>>
    THEN LET voted == determine_vote(take(block_info),
                                     block_info.nonce_request[1], transactions, hash)
         IN  handle_packets([told EXCEPT !.blocks[hash] = voted.block_info],
                            <<voted.request>>, "reinjected", crypto)
    ELSE IF /\ unwrap_or(block_info.valid, FALSE)
            /\ ~block_info.signing_round
            /\ is_coordinator(coordinator)
    THEN [told EXCEPT !.commands =
            Append(@, SignCommand(block_info.block, FALSE, <<>>))]
    ELSE told

\* verify_packet over the messages in order: the packets that survive.
RECURSIVE verify_packets(_, _, _)
verify_packets(s, messages, packets) ==
    IF messages = <<>> THEN [s |-> s, packets |-> packets]
    ELSE IF Head(messages).kind = "BlockResponse"
    THEN verify_packets(s, Tail(messages), packets)
    ELSE LET r == verify_packet(s, Head(messages))
         IN  verify_packets(r.s, Tail(messages), packets \o r.out)

\* Handle signer messages submitted to signers stackerdb
handle_signer_messages(s, messages, crypto) ==
    LET r == verify_packets(s, messages, <<>>)
    IN  handle_packets(r.s, r.packets, "forwarded", crypto)

\* Handle proposed blocks submitted by the miners to stackerdb
RECURSIVE handle_proposed_blocks(_, _)
handle_proposed_blocks(s, proposed) ==
    IF proposed = <<>> THEN s
    ELSE
    LET block == Head(proposed)
        hashed == signer_signature_hash(block)
    IN
    IF hashed = <<>>
    THEN handle_proposed_blocks(broadcast_signature_hash_rejection(s, block), Tail(proposed))
    ELSE handle_proposed_blocks(
            submit_block_for_validation(
                [s EXCEPT !.blocks = Put(@, hashed[1], BlockInfo_new(block))], block),
            Tail(proposed))

(***************************************************************************)
(* Commands                                                                *)
(***************************************************************************)

\* A variant of already_signing that never ignores a Sign command.
already_signing_never(block_info) == FALSE

\* The test that makes execute_command ignore a Sign command.
already_signing(block_info) == block_info.signing_round

\* Execute the given command: ok is what execute_command returns, start_ok is
\* whether the coordinator's start_dkg_round or start_signing_round succeeds.
execute_command(s, command, start_ok) ==
    IF command.type = "Dkg"
    THEN LET called == [s EXCEPT !.started =
                          Append(@, [type |-> "Dkg", block |-> 0, valid |-> <<>>,
                                     signing_round |-> FALSE, state |-> s.state])]
         IN  IF start_ok
             THEN [s |-> [send_message_with_retry(called, PacketMessage("DkgBegin"))
                          EXCEPT !.state = "Dkg",
                                 !.assigned = Append(@, [from |-> s.state, to |-> "Dkg",
                                                         by |-> "execute_command"])],
                   ok |-> TRUE]
             ELSE [s |-> called, ok |-> FALSE]
    ELSE
    LET hashed == signer_signature_hash(command.block) IN
    IF hashed = <<>> THEN [s |-> s, ok |-> FALSE]
    ELSE
    LET hash == hashed[1]
        inserted == IF hash \in DOMAIN s.blocks THEN s
                    ELSE [s EXCEPT !.blocks = Put(@, hash, BlockInfo_new(command.block))]
        block_info == inserted.blocks[hash]
    IN
    IF already_signing(block_info) THEN [s |-> inserted, ok |-> FALSE]
    ELSE
    LET called == [inserted EXCEPT !.started =
                      Append(@, [type |-> "Sign", block |-> command.block,
                                 valid |-> block_info.valid,
                                 signing_round |-> block_info.signing_round,
                                 state |-> s.state])]
    IN
    IF start_ok
    THEN [s |-> [send_message_with_retry(called, PacketMessage("NonceRequest"))
                 EXCEPT !.state = "Sign",
                        !.assigned = Append(@, [from |-> s.state, to |-> "Sign",
                                                by |-> "execute_command"]),
                        !.blocks[hash].signing_round = TRUE,
                        !.coord_msg = serialize_to_vec(command.block),
                        !.started_ever = @ \cup {hash}],
          ok |-> TRUE]
    ELSE [s |-> called, ok |-> FALSE]

\* while !self.execute_command(&command) {}: starts gives the outcome of the
\* coordinator's start at each attempt, the last outcome standing for every
\* later attempt.  A command that fails at every attempt keeps the pass from
\* returning (spin).
RECURSIVE retry_command(_, _, _)
retry_command(s, command, starts) ==
    LET r == execute_command(s, command, Head(starts)) IN
    IF r.ok THEN r.s
    ELSE IF Len(starts) > 1 THEN retry_command(r.s, command, Tail(starts))
    ELSE [r.s EXCEPT !.spin = TRUE]

\* A variant of process_next_command that pops in every state.
process_next_command_in_any_state(s, starts) ==
    IF s.commands # <<>>
    THEN retry_command([s EXCEPT !.commands = Tail(@),
                                 !.popped = Append(@, [command |-> Head(s.commands),
                                                       state |-> s.state])],
                       Head(s.commands), starts)
    ELSE s

\* A variant of process_next_command that takes the last command of the queue.
process_next_command_from_back(s, starts) ==
    IF s.state = "Idle" /\ s.commands # <<>>
    THEN retry_command([s EXCEPT !.commands = SubSeq(@, 1, Len(@) - 1),
                                 !.popped = Append(@, [command |-> s.commands[Len(s.commands)],
                                                       state |-> s.state])],
                       s.commands[Len(s.commands)], starts)
    ELSE s

\* Attempt to process the next command in the queue
process_next_command(s, starts) ==
    IF s.state = "Idle" /\ s.commands # <<>>
    THEN retry_command([s EXCEPT !.commands = Tail(@),
                                 !.popped = Append(@, [command |-> Head(s.commands),
                                                       state |-> s.state])],
                       Head(s.commands), starts)
    ELSE s

(***************************************************************************)
(* Initialisation: key is what get_aggregate_public_key returns            *)
(***************************************************************************)
\* A variant of initialize that does not look at the head of the queue.
initialize_without_head_test(s, key, coordinator) ==
    LET queued ==
            IF key # <<>> THEN [s EXCEPT !.coord_key = key]
            ELSE IF coordinator[1] = signer_id
            THEN [s EXCEPT !.commands = <<DkgCommand>> \o @]
            ELSE s
    IN  [queued EXCEPT !.state = "Idle",
                       !.assigned = Append(@, [from |-> s.state, to |-> "Idle",
                                               by |-> "initialize"]),
                       !.init_log = Append(@, [key |-> key, coordinator |-> coordinator,
                                               before |-> s.commands,
                                               after |-> queued.commands,
                                               coord_key |-> queued.coord_key])]

initialize(s, key, coordinator) ==
    LET queued ==
            IF key # <<>> THEN [s EXCEPT !.coord_key = key]
            ELSE IF /\ coordinator[1] = signer_id
                    /\ (s.commands = <<>> \/ Head(s.commands) # DkgCommand)
            THEN [s EXCEPT !.commands = <<DkgCommand>> \o @]
            ELSE s
    IN  [queued EXCEPT !.state = "Idle",
                       !.assigned = Append(@, [from |-> s.state, to |-> "Idle",
                                               by |-> "initialize"]),
                       !.init_log = Append(@, [key |-> key, coordinator |-> coordinator,
                                               before |-> s.commands,
                                               after |-> queued.commands,
                                               coord_key |-> queued.coord_key])]

(***************************************************************************)
(* run_one_pass, in three parts: the command is queued and the signer      *)
(* initialised, the event is handled, the next command is processed.       *)
(* in holds what the outside returns during the pass: key (the aggregate   *)
(* key query), init_coordinator and coordinator (calculate_coordinator in  *)
(* initialize and in the event's handler), crypto and starts.              *)
(***************************************************************************)
until_event(s, cmd, in) ==
    LET queued == IF cmd = <<>> THEN s ELSE [s EXCEPT !.commands = Append(@, cmd[1])]
    IN  IF queued.state = "Uninitialized"
        THEN initialize(queued, in.key, in.init_coordinator)
        ELSE queued

\* The state, the queue and the keys of the block table.
snapshot(s) == [state |-> s.state, commands |-> s.commands, keys |-> DOMAIN s.blocks]

\* The record of an event: what the RunLoop was when the handler was called and
\* what the handler left.
handled_as(ready, done, event, in) ==
    [done EXCEPT !.handled = <<[event |-> event, coordinator |-> in.coordinator,
                                before |-> snapshot(ready),
                                after |-> snapshot(done),
                                same_table |-> done.blocks = ready.blocks]>>]

\* The match on the event: the handler of the event is called.
handle_event(ready, event, in) ==
    handled_as(ready,
               CASE event.type = "BlockValidationResponse" ->
                       handle_block_validate_response(ready, event.response,
                                                      in.coordinator, in.crypto)
                 [] event.type = "SignerMessages" ->
                       handle_signer_messages(ready, event.messages, in.crypto)
                 [] event.type = "ProposedBlocks" ->
                       handle_proposed_blocks(ready, event.blocks)
                 [] event.type = "None" -> ready,
               event, in)

until_command(s, event, cmd, in) == handle_event(until_event(s, cmd, in), event, in)

\* A variant of run_one_pass that processes the next command before the event.
run_one_pass_command_first(s, event, cmd, in) ==
    handle_event(process_next_command(until_event(s, cmd, in), in.starts), event, in)

run_one_pass(s, event, cmd, in) ==
    process_next_command(until_command(s, event, cmd, in), in.starts)

(***************************************************************************)
(* The inputs of a pass                                                    *)
(***************************************************************************)
SeqsUpTo(S, n) == UNION {[1..k -> S] : k \in 0..n}

CommandInputs ==
    {<<>>, <<DkgCommand>>}
    \cup {<<SignCommand(b, FALSE, <<>>)>> : b \in AllBlocks}

\* Messages a nonce request may carry: a block, or bytes that decode to none.
NonceRequestMessages ==
    {serialize_to_vec(b) : b \in AllBlocks} \cup Hashes

\* Messages a signature share request may carry: a hash, a hash and 'n', a hash
\* and another byte, 31 bytes and 34 bytes.
ShareRequestMessages ==
    UNION {{h, Append(h, VoteNoByte), Append(h, 0), SubSeq(h, 1, HashLen - 1),
            h \o <<VoteNoByte, VoteNoByte>>} : h \in Hashes}

\* The votes of the other signers, carried by their nonce responses.
VoteMessages == UNION {{h, Append(h, VoteNoByte)} : h \in Hashes}

Packet(kind, message, verifies) ==
    [kind |-> kind, message |-> message, sign_id |-> 0, verifies |-> verifies]

SignerMessageInputs ==
    {Packet("NonceRequest", m, TRUE) : m \in NonceRequestMessages}
    \cup {Packet("SignatureShareRequest", m, TRUE) : m \in ShareRequestMessages}
    \cup {Packet("NonceResponse", m, TRUE) : m \in VoteMessages}
    \cup {Packet("NonceRequest", serialize_to_vec(b), FALSE) : b \in GoodBlocks}
    \cup {Packet(kind, <<>>, TRUE) :
            kind \in {"SignatureShareResponse", "DkgEnd", "BlockResponse"}}

\* The requests about a known block, which may come together in one event.
RequestInputs ==
    {Packet("NonceRequest", serialize_to_vec(b), TRUE) : b \in GoodBlocks}
    \cup {Packet("SignatureShareRequest", m, TRUE) : m \in VoteMessages}

MessageBatches ==
    {<<>>} \cup {<<m>> : m \in SignerMessageInputs}
    \cup {<<a, b>> : a \in RequestInputs, b \in RequestInputs}

\* A command given with a SignerMessages or ProposedBlocks event to an initialised
\* signer leaves the RunLoop as the same command given in a pass of its own does
\* (those handlers neither read nor write the queue), so commands come with the
\* other passes only.
CommandInputsWith(event_type) ==
    IF state = "Uninitialized" \/ event_type \in {"None", "BlockValidationResponse"}
    THEN CommandInputs
    ELSE {<<>>}

\* The results the coordinator may return from one call, given the packets of
\* the call: a timeout may end a round at any call, a signature (or the failure
\* to aggregate one) comes with a signature share response, a DKG result with a
\* DkgEnd.
OperationResults(packets) ==
    LET given(kind) == \E i \in DOMAIN packets : packets[i].kind = kind IN
    {[type |-> "SignError", verifies |-> FALSE, error |-> e] :
        e \in {"NonceTimeout", "InsufficientSigners"}}
    \cup {[type |-> "DkgError", verifies |-> FALSE, error |-> ""]}
    \cup (IF given("SignatureShareResponse")
          THEN {[type |-> "Sign", verifies |-> v, error |-> ""] : v \in BOOLEAN}
               \cup {[type |-> "SignTaproot", verifies |-> FALSE, error |-> ""],
                     [type |-> "SignError", verifies |-> FALSE, error |-> "Aggregator"]}
          ELSE {})
    \cup (IF given("DkgEnd")
          THEN {[type |-> "Dkg", verifies |-> FALSE, error |-> ""]}
          ELSE {})

\* No result, or one.
ResultBatches(packets) == {<<>>} \cup {<<r>> : r \in OperationResults(packets)}

\* The WSTS signer answers each request it is given.
signer_outbound(packets) ==
    LET answer(kind) == IF kind = "NonceRequest" THEN <<"NonceResponse">>
                        ELSE IF kind = "SignatureShareRequest"
                        THEN <<"SignatureShareResponse">>
                        ELSE <<>>
        answers[i \in 0..Len(packets)] ==
            IF i = 0 THEN <<>> ELSE answers[i - 1] \o answer(packets[i].kind)
    IN  answers[Len(packets)]

\* What the crypto layer may do with the packets it is given: the coordinator
\* keeps its message or adopts the message of a nonce request or of a nonce
\* response (a vote that won), asking for signature shares in the latter case,
\* and returns one of the results.
CryptoOutcomes(packets, results) ==
    {[adopt |-> a, results |-> r, signer_outbound |-> signer_outbound(packets),
      coordinator_outbound |->
         IF a # 0 /\ packets[a].kind = "NonceResponse"
         THEN <<"SignatureShareRequest">> ELSE <<>>] :
        a \in {0} \cup {i \in 1..Len(packets) :
                            packets[i].kind \in {"NonceRequest", "NonceResponse"}},
        r \in results}

NoCrypto == [adopt |-> 0, results |-> <<>>, signer_outbound |-> <<>>,
             coordinator_outbound |-> <<>>]

\* What calculate_coordinator may return, over the iteration orders of the
\* public keys and the tips the node may report.
CoordinatorResults ==
    {calculate_coordinator(order, tip) : order \in IterationOrders, tip \in TipResults}

\* What initialisation may be given; nothing when the signer is initialised.
InitInputs ==
    IF state = "Uninitialized"
    THEN {[key |-> k, init_coordinator |-> c] : k \in {<<>>, <<1>>},
                                                 c \in CoordinatorResults}
    ELSE {[key |-> <<>>, init_coordinator |-> <<0, 0>>]}

\* The outcomes of the coordinator's start at the attempts of the retry loop.
StartInputs(s) ==
    IF s.state = "Idle" /\ s.commands # <<>>
    THEN {<<TRUE>>, <<FALSE, TRUE>>, <<FALSE>>}
    ELSE {<<TRUE>>}

Inputs(ini, coordinator, crypto, starts) ==
    [key |-> ini.key, init_coordinator |-> ini.init_coordinator,
     coordinator |-> coordinator, crypto |-> crypto, starts |-> starts]

(***************************************************************************)
(* The state machine                                                       *)
(***************************************************************************)
\* SignerEventReceiver::new: not bound, no consumer, the stop signal not set.
SignerEventReceiver_new ==
    /\ http_server = <<>>
    /\ local_addr = <<>>
    /\ out_channels = <<>>
    /\ stop_signal = FALSE
    /\ incoming = <<>>
    /\ arrivals = 0
    /\ loop_pc = "unstarted"
    /\ current = <<>>
    /\ exit_reason = ""
    /\ answered = <<>>
    /\ returned = <<>>
    /\ driver = "running"

Init ==
    /\ state = "Uninitialized"
    /\ commands = <<>>
    /\ blocks = EmptyMap
    /\ transactions \in {<<>>, <<8>>}
    /\ coord_msg = <<>>
    /\ coord_key = <<>>
    /\ pc = "ready"
    /\ submitted_ever = {}
    /\ accepted_ever = {}
    /\ started_ever = {}
    /\ unknown_pending = {}
    /\ published = <<>>
    /\ crypto_in = <<>>
    /\ submitted = <<>>
    /\ started = <<>>
    /\ ssr_log = <<>>
    /\ accept_log = <<>>
    /\ assigned = <<>>
    /\ popped = <<>>
    /\ results_log = <<>>
    /\ init_log = <<>>
    /\ handled = <<>>
    /\ elected = <<>>
    /\ SignerEventReceiver_new
    /\ requested = <<>>

\* The RunLoop as the pass finds it.
Begin ==
    [state |-> state, commands |-> commands, blocks |-> blocks,
     coord_msg |-> coord_msg, coord_key |-> coord_key, spin |-> FALSE,
     submitted_ever |-> submitted_ever, accepted_ever |-> accepted_ever,
     started_ever |-> started_ever, unknown_pending |-> unknown_pending,
     published |-> <<>>, crypto_in |-> <<>>, submitted |-> <<>>, started |-> <<>>,
     ssr_log |-> <<>>, accept_log |-> <<>>, assigned |-> <<>>, popped |-> <<>>,
     results |-> <<>>, init_log |-> <<>>, handled |-> <<>>]

\* The RunLoop as the pass leaves it.  history says whether the pass is recorded
\* in started_ever and unknown_pending.
End(s, history) ==
    /\ Len(s.commands) <= MaxQueue
    /\ state' = s.state
    /\ commands' = s.commands
    /\ blocks' = s.blocks
    /\ coord_msg' = s.coord_msg
    /\ coord_key' = s.coord_key
    /\ submitted_ever' = s.submitted_ever
    /\ accepted_ever' = s.accepted_ever
    /\ started_ever' = IF history THEN s.started_ever ELSE started_ever
    /\ unknown_pending' = IF history THEN s.unknown_pending ELSE unknown_pending
    /\ published' = s.published
    /\ crypto_in' = s.crypto_in
    /\ submitted' = s.submitted
    /\ started' = s.started
    /\ ssr_log' = s.ssr_log
    /\ accept_log' = s.accept_log
    /\ assigned' = s.assigned
    /\ popped' = s.popped
    /\ results_log' = s.results
    /\ init_log' = s.init_log
    /\ handled' = s.handled
    /\ pc' = IF s.spin THEN "spinning" ELSE "passed"
    /\ UNCHANGED <<transactions, elected, receiver_vars, requested>>

\* The pass: an event chosen with what the outside returns while it is handled,
\* then the outcomes of the coordinator's start for the command it pops.
Pass(event, cmd, ini, coordinator, crypto, history) ==
    \E starts \in StartInputs(until_command(Begin, event, cmd,
                                Inputs(ini, coordinator, crypto, <<TRUE>>))) :
        End(run_one_pass(Begin, event, cmd, Inputs(ini, coordinator, crypto, starts)),
            history)

\* A pass with no event.
RunNoEvent(history) ==
    /\ pc = "ready"
    /\ \E cmd \in CommandInputsWith("None"), ini \in InitInputs :
        Pass([type |-> "None"], cmd, ini, <<0, 0>>, NoCrypto, history)

\* A pass with a BlockValidationResponse event.  The crypto layer is called
\* when the entry holds a stashed nonce request, the coordinator is elected
\* when it holds none.
RunBlockValidationResponse(history) ==
    /\ pc = "ready"
    /\ \E cmd \in CommandInputsWith("BlockValidationResponse"), ini \in InitInputs,
          block \in AllBlocks, ok \in BOOLEAN :
        LET ready == until_event(Begin, cmd, Inputs(ini, <<0, 0>>, NoCrypto, <<TRUE>>))
            hashed == signer_signature_hash(block)
            stash == IF hashed # <<>> /\ hashed[1] \in DOMAIN ready.blocks
                     THEN ready.blocks[hashed[1]].nonce_request
                     ELSE <<>>
            event == [type |-> "BlockValidationResponse",
                      response |-> [ok |-> ok, block |-> block]]
        IN  IF stash # <<>>
            THEN \E crypto \in CryptoOutcomes(stash, ResultBatches(stash)) :
                    Pass(event, cmd, ini, <<0, 0>>, crypto, history)
            ELSE \E coordinator \in CoordinatorResults :
                    Pass(event, cmd, ini, coordinator, NoCrypto, history)

\* A pass with a SignerMessages event.  Results returned with two messages
\* leave the RunLoop as the same results returned in the next pass do, so
\* results come with at most one message.
RunSignerMessages(history) ==
    /\ pc = "ready"
    /\ \E cmd \in CommandInputsWith("SignerMessages"), ini \in InitInputs,
          messages \in MessageBatches :
        LET ready == until_event(Begin, cmd, Inputs(ini, <<0, 0>>, NoCrypto, <<TRUE>>))
            packets == verify_packets(ready, messages, <<>>).packets
        IN  \E crypto \in CryptoOutcomes(packets,
                                IF Len(messages) <= 1 THEN ResultBatches(packets)
                                ELSE {<<>>}) :
                Pass([type |-> "SignerMessages", messages |-> messages],
                     cmd, ini, <<0, 0>>, crypto, history)

\* A pass with a ProposedBlocks event.
RunProposedBlocks(history) ==
    /\ pc = "ready"
    /\ \E cmd \in CommandInputsWith("ProposedBlocks"), ini \in InitInputs,
          proposed \in SeqsUpTo(AllBlocks, MaxProposed) :
        Pass([type |-> "ProposedBlocks", blocks |-> proposed],
             cmd, ini, <<0, 0>>, NoCrypto, history)

\* The passes of the run loop.
PassNoEvent == RunNoEvent(FALSE)
PassBlockValidationResponse == RunBlockValidationResponse(FALSE)
PassSignerMessages == RunSignerMessages(FALSE)
PassProposedBlocks == RunProposedBlocks(FALSE)

\* Initialisation keeps failing: retry_with_exponential_backoff gives up and
\* run_one_pass panics, with the command queued.
InitializeTimeout ==
    /\ pc = "ready"
    /\ state = "Uninitialized"
    /\ \E cmd \in CommandInputs :
        /\ commands' = IF cmd = <<>> THEN commands ELSE Append(commands, cmd[1])
        /\ pc' = "panicked"
    /\ published' = <<>> /\ crypto_in' = <<>> /\ submitted' = <<>>
    /\ started' = <<>> /\ ssr_log' = <<>> /\ accept_log' = <<>>
    /\ assigned' = <<>> /\ popped' = <<>> /\ results_log' = <<>>
    /\ init_log' = <<>> /\ handled' = <<>>
    /\ UNCHANGED <<state, blocks, transactions, coord_msg, coord_key,
                   submitted_ever, accepted_ever, started_ever, unknown_pending, elected,
                   receiver_vars, requested>>

\* run_one_pass has returned: the driver calls it again.
NextPass ==
    /\ pc = "passed"
    /\ pc' = "ready"
    /\ published' = <<>> /\ crypto_in' = <<>> /\ submitted' = <<>>
    /\ started' = <<>> /\ ssr_log' = <<>> /\ accept_log' = <<>>
    /\ assigned' = <<>> /\ popped' = <<>> /\ results_log' = <<>>
    /\ init_log' = <<>> /\ handled' = <<>>
    /\ UNCHANGED <<core_vars, elected, receiver_vars, requested>>

Next ==
    \/ PassNoEvent
    \/ PassBlockValidationResponse
    \/ PassSignerMessages
    \/ PassProposedBlocks
    \/ InitializeTimeout
    \/ NextPass

Spec == Init /\ [][Next]_vars

(***************************************************************************)
(* The run loop with its history: the same passes, each recorded in         *)
(* started_ever and unknown_pending.                                        *)
(***************************************************************************)
TrackedNoEvent == RunNoEvent(TRUE)
TrackedBlockValidationResponse == RunBlockValidationResponse(TRUE)
TrackedSignerMessages == RunSignerMessages(TRUE)
TrackedProposedBlocks == RunProposedBlocks(TRUE)

TrackedNext ==
    \/ TrackedNoEvent
    \/ TrackedBlockValidationResponse
    \/ TrackedSignerMessages
    \/ TrackedProposedBlocks
    \/ InitializeTimeout
    \/ NextPass

TrackedSpec == Init /\ [][TrackedNext]_vars

(***************************************************************************)
(* determine_vote on its own: the table holds one entry of any verdict, the *)
(* expected transactions are any list of up to MaxTxids ids, and the step   *)
(* applies determine_vote to the entry and a nonce request as               *)
(* validate_nonce_request does, leaving the request in crypto_in.           *)
(***************************************************************************)
Txids == {7, 8, 9}

TxidLists == UNION {[1..n -> Txids] : n \in 0..MaxTxids}

VoteInit ==
    /\ state = "Idle"
    /\ commands = <<>>
    /\ \E hash \in Hashes, block \in AllBlocks, valid \in {<<>>, <<TRUE>>, <<FALSE>>} :
          blocks = Put(EmptyMap, hash, [BlockInfo_new(block) EXCEPT !.valid = valid])
    /\ transactions \in TxidLists
    /\ coord_msg = <<>>
    /\ coord_key = <<>>
    /\ pc = "ready"
    /\ submitted_ever = {}
    /\ accepted_ever = {}
    /\ started_ever = {}
    /\ unknown_pending = {}
    /\ published = <<>>
    /\ crypto_in = <<>>
    /\ submitted = <<>>
    /\ started = <<>>
    /\ ssr_log = <<>>
    /\ accept_log = <<>>
    /\ assigned = <<>>
    /\ popped = <<>>
    /\ results_log = <<>>
    /\ init_log = <<>>
    /\ handled = <<>>
    /\ elected = <<>>
    /\ SignerEventReceiver_new
    /\ requested = <<>>

DetermineVote ==
    /\ pc = "ready"
    /\ \E hash \in DOMAIN blocks, message \in NonceRequestMessages :
          LET voted == determine_vote(blocks[hash], Packet("NonceRequest", message, TRUE),
                                      transactions, hash)
          IN  /\ blocks' = Put(blocks, hash, voted.block_info)
              /\ crypto_in' = <<voted.request>>
    /\ pc' = "passed"
    /\ UNCHANGED <<state, commands, transactions, coord_msg, coord_key, submitted_ever,
                   accepted_ever, started_ever, unknown_pending, published, submitted,
                   started, ssr_log, accept_log,
                   assigned, popped, results_log, init_log, handled, elected,
                   receiver_vars, requested>>

VoteSpec == VoteInit /\ [][DetermineVote]_vars

(***************************************************************************)
(* calculate_coordinator on its own: it is called up to MaxElections times  *)
(* over the registered signers, iterated in any order, with whatever the    *)
(* node reports as its tip, while the RunLoop moves between its states.     *)
(***************************************************************************)
States == {"Uninitialized", "Idle", "Dkg", "Sign"}

ElectionInit ==
    /\ state \in States
    /\ commands = <<>>
    /\ blocks = EmptyMap
    /\ transactions = <<>>
    /\ coord_msg = <<>>
    /\ coord_key = <<>>
    /\ pc = "ready"
    /\ submitted_ever = {}
    /\ accepted_ever = {}
    /\ started_ever = {}
    /\ unknown_pending = {}
    /\ published = <<>>
    /\ crypto_in = <<>>
    /\ submitted = <<>>
    /\ started = <<>>
    /\ ssr_log = <<>>
    /\ accept_log = <<>>
    /\ assigned = <<>>
    /\ popped = <<>>
    /\ results_log = <<>>
    /\ init_log = <<>>
    /\ handled = <<>>
    /\ elected = <<>>
    /\ SignerEventReceiver_new
    /\ requested = <<>>

CalculateCoordinator ==
    /\ Len(elected) < MaxElections
    /\ \E order \in IterationOrders, tip \in TipResults :
          elected' = Append(elected, [order |-> order, tip |-> tip, state |-> state,
                                      coordinator |-> calculate_coordinator(order, tip)])
    /\ UNCHANGED <<core_vars, pc, pass_vars, receiver_vars, requested>>

\* The RunLoop's state moves between two calls as its assignments allow.
StateAssigned ==
    /\ \/ state = "Uninitialized" /\ state' = "Idle"
       \/ state = "Idle" /\ state' \in {"Dkg", "Sign"}
       \/ state \in {"Dkg", "Sign"} /\ state' = "Idle"
    /\ UNCHANGED <<commands, blocks, transactions, coord_msg, coord_key, submitted_ever,
                   accepted_ever, started_ever, unknown_pending, pc, pass_vars, elected,
                   receiver_vars, requested>>

ElectionNext == CalculateCoordinator \/ StateAssigned

ElectionSpec == ElectionInit /\ [][ElectionNext]_vars

(***************************************************************************)
(* slot_id on its own: writers of any id publish messages of any kind, up  *)
(* to MaxSlots of them.  The ids are the least ones and the ones around    *)
(* the greatest id whose slots fit in a u32; the slot is kept as its two   *)
(* halves.                                                                 *)
(***************************************************************************)
MessageKinds ==
    {"DkgBegin", "DkgPrivateBegin", "DkgEndBegin", "DkgEnd", "DkgPublicShares",
     "DkgPrivateShares", "NonceRequest", "NonceResponse", "SignatureShareRequest",
     "SignatureShareResponse", "BlockResponse"}

WriterIds == {0, 1, 390451571, 390451572, 390451573}

SlotInit == ElectionInit /\ state = "Idle"

\* slot_id returns: the message is written to the slot.
SlotIdReturns ==
    /\ pc = "ready"
    /\ Len(published) < MaxSlots
    /\ \E kind \in MessageKinds, id \in WriterIds :
          published' = Append(published,
                              [high |-> slot_id_high(kind, id) % HalfWord,
                               low |-> slot_id_low(kind, id) % HalfWord,
                               kind |-> kind, id |-> id])
    /\ UNCHANGED <<core_vars, pc, crypto_in, submitted, started, ssr_log, accept_log,
                   assigned, popped, results_log, init_log, handled, elected,
                   receiver_vars, requested>>

\* slot_id overflows in a build with overflow checks: the thread panics.
SlotIdPanics ==
    /\ pc = "ready"
    /\ Len(published) < MaxSlots
    /\ \E kind \in MessageKinds, id \in WriterIds : slot_id_overflows(kind, id)
    /\ pc' = "panicked"
    /\ UNCHANGED <<core_vars, pass_vars, elected, receiver_vars, requested>>

SlotNext == SlotIdReturns \/ SlotIdPanics

SlotSpec == SlotInit /\ [][SlotNext]_vars

(***************************************************************************)
(* The event receiver (libsigner/src/events.rs).  The thread that owns the  *)
(* receiver binds it, adds consumers and starts main_loop; the node posts   *)
(* requests; consumers may hang up; the stop signaler is sent from another  *)
(* thread.  main_loop takes three steps for a request: the top of the loop  *)
(* up to the call of recv, recv returning, and the handling of the request  *)
(* with the forwarding of its event.                                        *)
(***************************************************************************)
\* The ports bind may be given; port 0 asks the system for a free port.
Listeners == {0, 30000}

\* HttpServer::http(listener): the port the server listens on.
bound_port(listener) == IF listener = 0 THEN 49152 ELSE listener

\* What the node may post: the method, the url and what the body holds.  A body
\* is unreadable, is not JSON of the expected shape, or names the contract of
\* the miners, a contract of signers or another contract; a proposal response
\* holds a BlockValidateResponse.
RequestShapes ==
    {[method |-> "POST", url |-> "/stackerdb_chunks", body |-> b] :
        b \in {"unreadable", "not_json", "miners", "signers", "other_contract"}}
    \cup {[method |-> "POST", url |-> "/proposal_response", body |-> b] :
        b \in {"unreadable", "not_json", "validation"}}
    \cup {[method |-> "POST", url |-> "/other", body |-> "text"],
          [method |-> "GET", url |-> "/stackerdb_chunks", body |-> "text"]}

HttpRequest(id, shape) ==
    [id |-> id, method |-> shape.method, url |-> shape.url, body |-> shape.body]

\* The request SignerStopSignaler::send posts to wake the receiver up.
ShutdownRequest == [id |-> 0, method |-> "POST", url |-> "/shutdown", body |-> "text"]

\* What handling a request comes to: the response given with request.respond,
\* an Option, and the Result returned.
Handled(response, ok, value) == [response |-> response, ok |-> ok, value |-> value]

SignerEvent(type, request) == [type |-> type, id |-> request.id]

\* Process a stackerdb event from the node
process_stackerdb_event(request) ==
    IF request.body = "unreadable" THEN Handled(<<200>>, FALSE, "MalformedRequest")
    ELSE IF request.body = "not_json" THEN Handled(<<>>, FALSE, "Deserialize")
    ELSE IF request.body = "miners"
    THEN Handled(<<200>>, TRUE, SignerEvent("ProposedBlocks", request))
    ELSE IF request.body = "signers"
    THEN Handled(<<200>>, TRUE, SignerEvent("SignerMessages", request))
    ELSE Handled(<<200>>, FALSE, "UnrecognizedStackerDBContract")

\* Process a proposal response from the node
process_proposal_response(request) ==
    IF request.body = "unreadable" THEN Handled(<<200>>, FALSE, "MalformedRequest")
    ELSE IF request.body = "not_json" THEN Handled(<<>>, FALSE, "Deserialize")
    ELSE Handled(<<200>>, TRUE, SignerEvent("BlockValidationResponse", request))

\* next_event once recv has returned the request.
next_event(request) ==
    IF request.method # "POST" THEN Handled(<<>>, FALSE, "MalformedRequest")
    ELSE IF request.url = "/stackerdb_chunks" THEN process_stackerdb_event(request)
    ELSE IF request.url = "/proposal_response" THEN process_proposal_response(request)
    ELSE Handled(<<200>>, FALSE, "UnrecognizedEvent")

\* A variant of forward_event that sends to the first consumer alone.
forward_event_to_the_first(channels, ev) ==
    IF channels = <<>> THEN [ok |-> FALSE, out_channels |-> channels, sent |-> FALSE]
    ELSE IF ~channels[1].open
    THEN [ok |-> FALSE, out_channels |-> channels, sent |-> TRUE]
    ELSE [ok |-> TRUE,
          out_channels |-> [channels EXCEPT ![1].received = Append(@, ev)],
          sent |-> TRUE]

\* Forward an event: the channels are sent to in order until a send fails, which
\* a send does when the Receiver of the channel is gone.  sent says whether a
\* send was attempted.
forward_event(channels, ev) ==
    IF channels = <<>> THEN [ok |-> FALSE, out_channels |-> channels, sent |-> FALSE]
    ELSE LET closed == {i \in DOMAIN channels : ~channels[i].open}
             reached(i) == \A j \in closed : i < j
         IN  [ok |-> closed = {},
              out_channels |-> [i \in DOMAIN channels |->
                                   IF reached(i)
                                   THEN [channels[i] EXCEPT !.received = Append(@, ev)]
                                   ELSE channels[i]],
              sent |-> TRUE]

ReceiverInit ==
    /\ state = "Idle"
    /\ ElectionInit

\* bind succeeds.
Bind ==
    /\ driver = "running" /\ loop_pc = "unstarted" /\ http_server = <<>>
    /\ \E listener \in Listeners :
          /\ http_server' = <<bound_port(listener)>>
          /\ local_addr' = <<listener>>
          /\ returned' = <<[call |-> "bind", ok |-> TRUE, value |-> listener]>>
    /\ UNCHANGED <<out_channels, stop_signal, incoming, arrivals, loop_pc, current,
                   exit_reason, answered, driver>>
    /\ UNCHANGED <<core_vars, pc, pass_vars, elected, requested>>

\* The address cannot be bound: HttpServer::http returns an error and expect
\* panics.
BindFails ==
    /\ driver = "running" /\ loop_pc = "unstarted" /\ http_server = <<>>
    /\ driver' = "panicked"
    /\ returned' = <<>>
    /\ UNCHANGED <<http_server, local_addr, out_channels, stop_signal, incoming, arrivals,
                   loop_pc, current, exit_reason, answered>>
    /\ UNCHANGED <<core_vars, pc, pass_vars, elected, requested>>

\* next_event or get_stop_signaler called before bind.
NotBound ==
    /\ driver = "running" /\ loop_pc = "unstarted"
    /\ \/ /\ http_server = <<>>
          /\ returned' = <<[call |-> "next_event", ok |-> FALSE, value |-> "NotBound"]>>
       \/ /\ local_addr = <<>>
          /\ returned' = <<[call |-> "get_stop_signaler", ok |-> FALSE,
                            value |-> "NotBound"]>>
    /\ UNCHANGED <<http_server, local_addr, out_channels, stop_signal, incoming, arrivals,
                   loop_pc, current, exit_reason, answered, driver>>
    /\ UNCHANGED <<core_vars, pc, pass_vars, elected, requested>>

\* Add an event consumer.
add_consumer ==
    /\ driver = "running" /\ loop_pc = "unstarted"
    /\ Len(out_channels) < MaxConsumers
    /\ out_channels' = Append(out_channels, [open |-> TRUE, received |-> <<>>])
    /\ UNCHANGED <<http_server, local_addr, stop_signal, incoming, arrivals, loop_pc,
                   current, exit_reason, answered, returned, driver>>
    /\ UNCHANGED <<core_vars, pc, pass_vars, elected, requested>>

\* main_loop is started, in a thread of its own, on a bound receiver.
StartMainLoop ==
    /\ driver = "running" /\ loop_pc = "unstarted" /\ http_server # <<>>
    /\ loop_pc' = "top"
    /\ UNCHANGED <<http_server, local_addr, out_channels, stop_signal, incoming, arrivals,
                   current, exit_reason, answered, returned, driver>>
    /\ UNCHANGED <<core_vars, pc, pass_vars, elected, requested>>

\* The top of the loop: is_stopped in main_loop and in next_event, then recv.
LoopTop ==
    /\ loop_pc = "top"
    /\ IF stop_signal
       THEN loop_pc' = "exited" /\ exit_reason' = "stopped"
       ELSE loop_pc' = "recv" /\ UNCHANGED exit_reason
    /\ UNCHANGED <<http_server, local_addr, out_channels, stop_signal, incoming, arrivals,
                   current, answered, returned, driver>>
    /\ UNCHANGED <<core_vars, pc, pass_vars, elected, requested>>

\* http_server.recv returns the next request.
Recv ==
    /\ loop_pc = "recv"
    /\ incoming # <<>>
    /\ current' = <<Head(incoming)>>
    /\ incoming' = Tail(incoming)
    /\ loop_pc' = "handling"
    /\ UNCHANGED <<http_server, local_addr, out_channels, stop_signal, arrivals,
                   exit_reason, answered, returned, driver>>
    /\ UNCHANGED <<core_vars, pc, pass_vars, elected, requested>>

\* The rest of next_event, and the rest of the iteration of main_loop.
Handle ==
    /\ loop_pc = "handling"
    /\ LET done == next_event(current[1])
           forwarded == forward_event(out_channels, done.value)
       IN  /\ answered' = Append(answered, [request |-> current[1],
                                            response |-> done.response,
                                            ok |-> done.ok, value |-> done.value])
           /\ IF ~done.ok
              THEN /\ loop_pc' = "top"
                   /\ UNCHANGED <<out_channels, exit_reason>>
              ELSE /\ out_channels' = forwarded.out_channels
                   /\ loop_pc' = IF forwarded.ok THEN "top" ELSE "exited"
                   /\ exit_reason' = IF forwarded.ok THEN exit_reason
                                     ELSE IF forwarded.sent THEN "send_failed"
                                     ELSE "no_channels"
    /\ current' = <<>>
    /\ UNCHANGED <<http_server, local_addr, stop_signal, incoming, arrivals, returned,
                   driver>>
    /\ UNCHANGED <<core_vars, pc, pass_vars, elected, requested>>

\* The node posts a request.
Arrive ==
    /\ http_server # <<>>
    /\ arrivals < MaxRequests
    /\ \E shape \in RequestShapes :
          incoming' = Append(incoming, HttpRequest(arrivals + 1, shape))
    /\ arrivals' = arrivals + 1
    /\ UNCHANGED <<http_server, local_addr, out_channels, stop_signal, loop_pc, current,
                   exit_reason, answered, returned, driver>>
    /\ UNCHANGED <<core_vars, pc, pass_vars, elected, requested>>

\* A consumer drops its Receiver.
HangUp ==
    /\ \E i \in DOMAIN out_channels :
          /\ out_channels[i].open
          /\ out_channels' = [out_channels EXCEPT ![i].open = FALSE]
    /\ UNCHANGED <<http_server, local_addr, stop_signal, incoming, arrivals, loop_pc,
                   current, exit_reason, answered, returned, driver>>
    /\ UNCHANGED <<core_vars, pc, pass_vars, elected, requested>>

\* SignerStopSignaler::send, of a signaler got after bind: the flag is set and,
\* if the connection to local_addr is made, a request is posted.
StopSignalerSend ==
    /\ local_addr # <<>>
    /\ ~stop_signal
    /\ stop_signal' = TRUE
    /\ incoming' = IF local_addr = http_server
                   THEN Append(incoming, ShutdownRequest)
                   ELSE incoming
    /\ UNCHANGED <<http_server, local_addr, out_channels, arrivals, loop_pc, current,
                   exit_reason, answered, returned, driver>>
    /\ UNCHANGED <<core_vars, pc, pass_vars, elected, requested>>

main_loop == LoopTop \/ Recv \/ Handle

ReceiverNext ==
    \/ Bind
    \/ BindFails
    \/ NotBound
    \/ add_consumer
    \/ StartMainLoop
    \/ LoopTop
    \/ Recv
    \/ Handle
    \/ Arrive
    \/ HangUp
    \/ StopSignalerSend

ReceiverSpec == ReceiverInit /\ [][ReceiverNext]_vars

\* The thread of main_loop keeps running while it has a step to take.
ReceiverFairSpec == ReceiverSpec /\ WF_vars(main_loop)

(***************************************************************************)
(* The chain-node client (stacks-signer/src/client/stacks_client.rs).  A   *)
(* call sends its request until the node responds and then looks at the    *)
(* response: its status and its body.  The body is given by its shape: not *)
(* JSON at all, a JSON value that lacks a field the call needs, one whose   *)
(* field has another type, the contract's refusal (okay: false) or the      *)
(* response the call expects.                                               *)
(***************************************************************************)
Statuses == {200, 202, 304, 404}

Bodies == {"not_json", "missing_field", "wrong_type", "not_okay", "expected"}

Responses == [status : Statuses, body : Bodies]

ClientOk == [ok |-> TRUE, error |-> "", status |-> 0]
ClientErr(error) == [ok |-> FALSE, error |-> error, status |-> 0]
RequestFailure(status) == [ok |-> FALSE, error |-> "RequestFailure", status |-> status]

\* StatusCode::is_success
is_success_below_500(status) == status < 500
is_success(status) == 200 <= status /\ status < 300

\* Response::json::<serde_json::Value>: any JSON text is a Value.
json_value(body) == body # "not_json"

\* Response::json::<T> for a struct T (RPCPoxInfoData, CallReadOnlyResponse):
\* the text is JSON and has the fields of T with their types.  The refusal
\* of a contract call is a CallReadOnlyResponse and not an RPCPoxInfoData.
json_struct(body, shapes) == body \in shapes

get_stacks_tip_consensus_hash_any_field(response) ==
    IF ~is_success(response.status) THEN RequestFailure(response.status)
    ELSE IF ~json_value(response.body) THEN ClientErr("ReqwestError")
    ELSE ClientOk

get_stacks_tip_consensus_hash(response) ==
    IF ~is_success(response.status) THEN RequestFailure(response.status)
    ELSE IF ~json_value(response.body) THEN ClientErr("ReqwestError")
    ELSE IF response.body # "expected" THEN ClientErr("UnexpectedResponseFormat")
    ELSE ClientOk

\* submit_block_for_validation, from the response on
block_proposal_response(response) ==
    IF ~is_success(response.status) THEN RequestFailure(response.status)
    ELSE ClientOk

get_pox_data(response) ==
    IF ~is_success(response.status) THEN RequestFailure(response.status)
    ELSE IF ~json_struct(response.body, {"expected"}) THEN ClientErr("ReqwestError")
    ELSE ClientOk

submit_tx(response) ==
    IF ~is_success(response.status) THEN RequestFailure(response.status)
    ELSE ClientOk

read_only_contract_call_with_retry(response) ==
    IF ~is_success(response.status) THEN RequestFailure(response.status)
    ELSE IF ~json_struct(response.body, {"expected", "not_okay"})
         THEN ClientErr("ReqwestError")
    ELSE IF response.body = "not_okay" THEN ClientErr("ReadOnlyFailure")
    ELSE ClientOk

ClientInit == ElectionInit /\ state = "Idle"

Called(call, response, result) ==
    /\ Len(requested) < MaxCalls
    /\ requested' = Append(requested, [call |-> call, response |-> response,
                                       result |-> result])
    /\ UNCHANGED <<core_vars, pc, pass_vars, elected, receiver_vars>>

GetStacksTipConsensusHash ==
    \E response \in Responses :
        Called("get_stacks_tip_consensus_hash", response,
               get_stacks_tip_consensus_hash(response))

SubmitBlockForValidation ==
    \E response \in Responses :
        Called("submit_block_for_validation", response,
               block_proposal_response(response))

GetPoxData ==
    \E response \in Responses :
        Called("get_pox_data", response, get_pox_data(response))

SubmitTx ==
    \E response \in Responses :
        Called("submit_tx", response, submit_tx(response))

ReadOnlyContractCall ==
    \E response \in Responses :
        Called("read_only_contract_call_with_retry", response,
               read_only_contract_call_with_retry(response))

ClientNext ==
    \/ GetStacksTipConsensusHash
    \/ SubmitBlockForValidation
    \/ GetPoxData
    \/ SubmitTx
    \/ ReadOnlyContractCall

ClientSpec == ClientInit /\ [][ClientNext]_vars

(***************************************************************************)
(* Properties                                                              *)
(***************************************************************************)
Count(seq, Test(_)) == Cardinality({i \in DOMAIN seq : Test(seq[i])})

IsAccepted(message) == message.kind = "BlockResponse" /\ message.response = "Accepted"
IsReinjected(packet) == packet.origin = "reinjected"
IsForwardedShareRequest(packet) ==
    packet.kind = "SignatureShareRequest" /\ packet.origin = "forwarded"

\* C1: every signature share request handed to handle_packets carries the bytes
\* that blocks[hash].vote holds when handle_packets is called, hash being the
\* first 32 bytes of the request's message.
C1_ForwardedRequestCarriesVote ==
    \A i \in DOMAIN crypto_in :
        IsForwardedShareRequest(crypto_in[i])
            => crypto_in[i].vote = <<crypto_in[i].message>>

\* C2: once the entry of a hash holds a vote, no pass leaves that entry with no
\* vote or with another vote.
C2_VoteSetOnce ==
    [][\A h \in DOMAIN blocks :
          (blocks[h].vote # <<>> /\ h \in DOMAIN blocks')
              => blocks'[h].vote = blocks[h].vote]_vars

\* C3: once the entry of a hash has signing_round true, no pass leaves that
\* entry with signing_round false.
C3_SigningRoundMonotonic ==
    [][\A h \in DOMAIN blocks :
          (blocks[h].signing_round /\ h \in DOMAIN blocks')
              => blocks'[h].signing_round]_vars

\* C4: a block is given to submit_block_for_validation at most once per hash:
\* never for a hash submitted in an earlier pass, never twice in one pass.
C4_SubmittedAtMostOnce ==
    [][\A i \in DOMAIN submitted' :
          /\ signer_signature_hash(submitted'[i])[1] \notin submitted_ever
          /\ \A j \in 1..(i - 1) : submitted'[j] # submitted'[i]]_vars

\* C5: at most one BlockResponse::Accepted is published per block hash: never
\* for a hash accepted in an earlier pass, never twice in one pass.
C5_AcceptedAtMostOnce ==
    [][\A i \in DOMAIN accept_log' :
          /\ accept_log'[i].hash \notin accepted_ever
          /\ \A j \in 1..(i - 1) : accept_log'[j].hash # accept_log'[i].hash]_vars

\* C6: a BlockResponse::Accepted is published for a block only when the
\* coordinator's active message is that block's hash and the aggregate key is
\* set; the entry's own vote does not decide it.
C6_AcceptedWhenHashSigned ==
    /\ Count(published, IsAccepted) = Len(accept_log)
    /\ \A i \in DOMAIN accept_log :
          /\ accept_log[i].message = accept_log[i].hash
          /\ coord_key # <<>>

\* C6 as claimed: an Accepted is published only when the entry's vote was the
\* hash (a YES) when the Sign result was processed.
C6_AcceptedOnlyAfterOwnYes ==
    \A i \in DOMAIN accept_log : accept_log[i].vote = <<accept_log[i].hash>>

\* An Accepted published for an entry whose vote was not YES.
C6_Witness ==
    \E i \in DOMAIN accept_log :
        /\ accept_log[i].vote # <<accept_log[i].hash>>
        /\ accept_log[i].message = accept_log[i].hash

\* C7: start_signing_round is called for a block only when the block's hash is
\* derivable and its entry (inserted fresh when absent) has signing_round
\* false when the command is executed; valid is not consulted.
C7_StartedWhenNotSigning ==
    \A i \in DOMAIN started :
        started[i].type = "Sign"
            => /\ ~started[i].signing_round
               /\ signer_signature_hash(started[i].block) # <<>>
               /\ started[i].state = "Idle"

\* C7 as claimed: start_signing_round is called only when the entry has
\* valid == Some(true) and signing_round == false.
C7_StartedOnlyWhenValid ==
    \A i \in DOMAIN started :
        started[i].type = "Sign"
            => started[i].valid = <<TRUE>> /\ ~started[i].signing_round

\* start_signing_round called for a block whose entry is not valid.
C7_Witness ==
    \E i \in DOMAIN started :
        /\ started[i].type = "Sign"
        /\ started[i].valid # <<TRUE>>
        /\ ~started[i].signing_round

IsAcceptedRequest(entry) == entry.accepted

\* C8: a signature share request is accepted if and only if its message is 32
\* bytes, or 33 bytes ending with 'n', and the table holds a vote for the hash
\* in its first 32 bytes; the requests forwarded are the accepted ones.
C8_ShareRequestAccepted ==
    /\ \A i \in DOMAIN ssr_log :
          LET m == ssr_log[i].message IN
          ssr_log[i].accepted <=>
              /\ \/ Len(m) = HashLen
                 \/ Len(m) = HashLen + 1 /\ m[HashLen + 1] = VoteNoByte
              /\ ssr_log[i].vote # <<>>
    /\ Count(crypto_in, IsForwardedShareRequest) = Count(ssr_log, IsAcceptedRequest)

\* C8 as claimed: a request of 32 or 33 bytes is accepted if and only if the
\* table holds a vote for the hash in its first 32 bytes, a request of another
\* length is rejected, and the requests forwarded are the accepted ones.
C8_AcceptedIffVote ==
    /\ \A i \in DOMAIN ssr_log :
          LET m == ssr_log[i].message IN
          IF Len(m) \in {HashLen, HashLen + 1}
          THEN ssr_log[i].accepted <=> ssr_log[i].vote # <<>>
          ELSE ~ssr_log[i].accepted
    /\ Count(crypto_in, IsForwardedShareRequest) = Count(ssr_log, IsAcceptedRequest)

\* A request of 33 bytes that do not end with 'n', rejected though the table
\* holds a vote for its hash.
C8_Witness ==
    \E i \in DOMAIN ssr_log :
        /\ Len(ssr_log[i].message) = HashLen + 1
        /\ ssr_log[i].message[HashLen + 1] # VoteNoByte
        /\ ssr_log[i].vote # <<>>
        /\ ~ssr_log[i].accepted

\* C9: a nonce request stashed in an entry stays stashed, as long as the table
\* holds the entry, until a pass re-injects it into handle_packets, which that
\* pass does exactly once, whatever the passes in between did.
C9_StashReinjectedOnce ==
    [][\A h \in DOMAIN blocks :
          (blocks[h].nonce_request # <<>> /\ h \in DOMAIN blocks')
              => \/ blocks'[h].nonce_request # <<>>
                 \/ Count(crypto_in', IsReinjected) = 1]_vars

\* C10: between passes an entry holds a stashed nonce request only while its
\* valid field is absent.
C10_StashOnlyWhilePending ==
    \A h \in DOMAIN blocks :
        blocks[h].nonce_request # <<>> => blocks[h].valid = <<>>

\* A pass has recorded a verdict and re-injected the request stashed for it.
C10_Witness ==
    /\ Count(crypto_in, IsReinjected) = 1
    /\ \E h \in DOMAIN blocks :
          blocks[h].valid # <<>> /\ blocks[h].nonce_request = <<>>

\* C11: a command is popped, and start_dkg_round or start_signing_round called,
\* only in state Idle and only for the one command the pass pops; a pass that
\* finds the state Dkg or Sign and gets no operation results pops nothing,
\* starts nothing and leaves the state and the length of the queue; a pass that
\* starts a round and returns leaves the state Dkg or Sign.
C11_PoppedOnlyWhenIdle ==
    [][/\ \A i \in DOMAIN popped' : popped'[i].state = "Idle"
       /\ \A i \in DOMAIN started' : started'[i].state = "Idle"
       /\ Len(popped') <= 1
       /\ started' # <<>> => popped' # <<>>
       /\ (state \in {"Dkg", "Sign"} /\ results_log' = <<>>)
            => /\ popped' = <<>> /\ started' = <<>>
               /\ Len(commands') >= Len(commands)
               /\ state' = state
       /\ (pc' = "passed" /\ started' # <<>>) => state' \in {"Dkg", "Sign"}]_vars

\* A pass that found the state Dkg or Sign, was returned operation results and
\* then popped a command and started its round.
C11_Witness ==
    /\ handled # <<>> /\ handled[1].before.state \in {"Dkg", "Sign"}
    /\ results_log # <<>>
    /\ popped # <<>> /\ started # <<>>
    /\ state \in {"Dkg", "Sign"}

\* The pass found the state Dkg or Sign, its event yielded operation results and
\* its handler left the queue non-empty.
ResultsWithCommandWaiting ==
    /\ handled # <<>>
    /\ handled[1].before.state \in {"Dkg", "Sign"}
    /\ results_log # <<>>
    /\ handled[1].after.commands # <<>>

PoppedHead ==
    popped = <<[command |-> Head(handled[1].after.commands), state |-> "Idle"]>>

StartedPopped ==
    \E i \in DOMAIN started :
        /\ started[i].type = popped[1].command.type
        /\ started[i].block = popped[1].command.block

\* C12: the event is handled before process_next_command runs: when the event
\* yields operation results while the state is Dkg or Sign and the queue is not
\* empty, the head command is popped in that pass, in state Idle; its round is
\* started in that pass unless the pass never returns (a Sign command that
\* aborts, or a start that keeps failing).
C12_EventBeforeCommand ==
    ResultsWithCommandWaiting
        => /\ handled[1].after.state = "Idle"
           /\ PoppedHead
           /\ pc = "passed" => StartedPopped /\ state \in {"Dkg", "Sign"}

\* C12 as claimed: the head command is popped and started in that same pass.
C12_PoppedAndStarted ==
    ResultsWithCommandWaiting => PoppedHead /\ StartedPopped

\* Operation results, then a command popped and started in the same pass.
C12_Witness ==
    ResultsWithCommandWaiting /\ PoppedHead /\ StartedPopped /\ pc = "passed"

IsByInitialize(a) == a.by = "initialize"
IsByExecuteCommand(a) == a.by = "execute_command"
IsByHandlePackets(a) == a.by = "handle_packets"
IsRoundOpening(message) == message.kind \in {"DkgBegin", "NonceRequest"}

\* C13: every assignment to the state is Uninitialized to Idle by initialize,
\* Idle to Dkg or Idle to Sign by a command whose start succeeded, or any
\* initialised state to Idle on operation results, which must be non-empty;
\* nothing else changes the state; the state is not Uninitialized once a pass
\* has got past initialisation; a pass whose start keeps failing assigns
\* nothing for the command.
C13_StateAssignments ==
    [][/\ \A i \in DOMAIN assigned' :
            LET a == assigned'[i] IN
            /\ \/ IsByInitialize(a) /\ a.from = "Uninitialized" /\ a.to = "Idle"
               \/ IsByExecuteCommand(a) /\ a.from = "Idle" /\ a.to \in {"Dkg", "Sign"}
               \/ IsByHandlePackets(a) /\ a.from # "Uninitialized" /\ a.to = "Idle"
            /\ a.from = IF i = 1 THEN state ELSE assigned'[i - 1].to
       /\ state' = IF assigned' = <<>> THEN state ELSE assigned'[Len(assigned')].to
       /\ Count(assigned', IsByHandlePackets) = IF results_log' = <<>> THEN 0 ELSE 1
       /\ Count(assigned', IsByExecuteCommand) = Count(published', IsRoundOpening)
       /\ Count(assigned', IsByExecuteCommand) = IF popped' # <<>> /\ pc' = "passed" THEN 1 ELSE 0
       /\ pc' \in {"passed", "spinning"} => state' # "Uninitialized"]_vars

\* A pass that set the state to Idle on operation results and then to Dkg or
\* Sign for the command it popped.
C13_Witness ==
    /\ Len(assigned) = 2
    /\ IsByHandlePackets(assigned[1]) /\ assigned[1].from \in {"Dkg", "Sign"}
    /\ IsByExecuteCommand(assigned[2])
    /\ state = assigned[2].to

\* C14: initialize leaves the queue as it is when the node reports an aggregate
\* key, which is installed in the coordinator; when the node reports none it
\* pushes one Dkg to the front of the queue if and only if this signer is the
\* elected coordinator and the head of the queue is not a Dkg; either way the
\* state becomes Idle.
C14_Initialize ==
    /\ Len(init_log) <= 1
    /\ \A i \in DOMAIN init_log :
          LET r == init_log[i] IN
          /\ r.key # <<>> => r.after = r.before /\ r.coord_key = r.key
          /\ r.key = <<>> =>
                r.after = IF /\ r.coordinator[1] = signer_id
                             /\ (r.before = <<>> \/ Head(r.before) # DkgCommand)
                          THEN <<DkgCommand>> \o r.before
                          ELSE r.before
          /\ assigned # <<>> /\ IsByInitialize(assigned[1]) /\ assigned[1].to = "Idle"

\* initialize pushed a Dkg in front of a command that was waiting.
C14_Witness ==
    \E i \in DOMAIN init_log :
        /\ init_log[i].key = <<>>
        /\ init_log[i].before # <<>>
        /\ init_log[i].after = <<DkgCommand>> \o init_log[i].before

\* The validation response handled in this pass, if any, as handle_event logged it.
IsValidationResponse(h) == h.event.type = "BlockValidationResponse"

\* C15: a validation response for a block without a stashed nonce request
\* appends a Sign command (not taproot, no merkle root) for the block to the
\* queue if and only if the verdict is Ok, the entry's signing_round is false
\* and this signer is the elected coordinator; otherwise the handler leaves the
\* queue as it was.
C15_SignEnqueuedIff ==
    [][\A i \in DOMAIN handled' :
          LET h == handled'[i]
              block == h.event.response.block
              hashed == signer_signature_hash(block)
              known == hashed # <<>> /\ hashed[1] \in DOMAIN blocks
              stash == IF known THEN blocks[hashed[1]].nonce_request ELSE <<>>
              signing == IF known THEN blocks[hashed[1]].signing_round ELSE FALSE
          IN  IsValidationResponse(h) /\ stash = <<>> =>
                h.after.commands =
                    IF /\ hashed # <<>>
                       /\ h.event.response.ok
                       /\ ~signing
                       /\ h.coordinator[1] = signer_id
                    THEN Append(h.before.commands, SignCommand(block, FALSE, <<>>))
                    ELSE h.before.commands]_vars

\* A validation response put a Sign command behind a command that was waiting.
C15_Witness ==
    \E i \in DOMAIN handled :
        /\ IsValidationResponse(handled[i])
        /\ handled[i].before.commands # <<>>
        /\ handled[i].after.commands =
              Append(handled[i].before.commands,
                     SignCommand(handled[i].event.response.block, FALSE, <<>>))

\* The ids of a list of transactions.
Ids(list) == {list[i] : i \in DOMAIN list}

\* C16: determine_vote records the 32-byte hash (YES) if and only if the entry
\* is valid == Some(true) and every expected transaction id is among the
\* block's transactions, and the hash followed by the byte 'n' (NO) otherwise;
\* what it records is the entry's vote and the message of the nonce request.
C16_DetermineVote ==
    pc = "passed" =>
        \A hash \in DOMAIN blocks :
            LET block_info == blocks[hash]
                yes == /\ block_info.valid = <<TRUE>>
                       /\ Ids(transactions) \subseteq Ids(block_txs(block_info.block))
            IN  /\ block_info.vote = <<IF yes THEN hash ELSE hash \o <<VoteNoByte>> >>
                /\ Len(crypto_in) = 1
                /\ crypto_in[1].message = block_info.vote[1]

\* determine_vote recorded YES for a block that carries the expected transaction.
C16_Witness ==
    /\ pc = "passed"
    /\ transactions # <<>>
    /\ \E hash \in DOMAIN blocks : blocks[hash].vote = <<hash>>

\* The block response process_signature publishes for a result over a message.
SignedResponse(message, hash, block, result) ==
    [slot |-> SIGNER_SLOTS_PER_USER * signer_id + BLOCK_SLOT_ID,
     kind |-> "BlockResponse",
     response |-> IF message = hash THEN "Accepted" ELSE "Rejected",
     block |-> block,
     code |-> IF message = hash THEN "" ELSE "SignedRejection",
     signer_signature |-> <<result>>]

IsSigned(message) == message.kind = "BlockResponse" /\ message.signer_signature # <<>>

\* C17: a Sign result whose signature verifies, processed with the aggregate key
\* set and the block of the coordinator's message in the table, publishes in the
\* block response slot of this signer Accepted(block) when the message is the
\* 32-byte hash and Rejected(block, SignedRejection) otherwise, the block's
\* header carrying the signature; no other signed response is published.
C17_SignatureResponse ==
    \A i \in DOMAIN results_log :
        LET seen == results_log[i]
            prefix == IF Len(seen.message) > HashLen
                      THEN SubSeq(seen.message, 1, HashLen)
                      ELSE seen.message
        IN  /\ seen.result.type = "Sign"
            /\ seen.result.verifies
            /\ seen.key # <<>>
            => \A entry \in seen.table :
                  entry[1] = prefix =>
                      /\ \E j \in DOMAIN published :
                            published[j] =
                                SignedResponse(seen.message, prefix, entry[2], seen.result)
                      /\ Count(published, IsSigned) = 1

\* A signature over a vote against a known block was published as a rejection.
C17_Witness ==
    \E j \in DOMAIN published :
        /\ IsSigned(published[j])
        /\ published[j].response = "Rejected"
        /\ published[j].code = "SignedRejection"
        /\ published[j].slot = SIGNER_SLOTS_PER_USER * signer_id + BLOCK_SLOT_ID

IsInsufficientSigners(result) ==
    result.type = "SignError" /\ result.error = "InsufficientSigners"

\* C18: an InsufficientSigners result publishes Rejected(block,
\* InsufficientSigners) whenever the block can be recovered from the
\* coordinator's message: the message decodes as a block, whatever the table
\* holds, or the 32-byte prefix of the message is a key of the table.
C18_InsufficientSignersRejected ==
    \A i \in DOMAIN results_log :
        LET seen == results_log[i]
            decoded == read_next(seen.message)
            prefix == IF Len(seen.message) > HashLen
                      THEN SubSeq(seen.message, 1, HashLen)
                      ELSE seen.message
            recovered == IF decoded # <<>> THEN {decoded[1]}
                         ELSE {entry[2] : entry \in {e \in seen.table : e[1] = prefix}}
        IN  IsInsufficientSigners(seen.result) =>
                \A block \in recovered :
                    \E j \in DOMAIN published :
                        /\ published[j].kind = "BlockResponse"
                        /\ published[j].response = "Rejected"
                        /\ published[j].code = "InsufficientSigners"
                        /\ published[j].block = block

\* The blocks an event hands to the run loop.
EventBlocks(event) ==
    CASE event.type = "ProposedBlocks" -> event.blocks
      [] event.type = "BlockValidationResponse" -> <<event.response.block>>
      [] OTHER -> <<>>

\* C19: when the hash of a block of a ProposedBlocks event or of a validation
\* response (Ok or Reject) cannot be derived, Rejected(block,
\* InvalidSignatureHash) is published for the block, once for each time the
\* event carries it, the block is not submitted for validation, no command is
\* enqueued and the table is left as it was (but for the entries of the other
\* blocks of the event).
C19_InvalidSignatureHash ==
    \A i \in DOMAIN handled :
        LET h == handled[i]
            given == EventBlocks(h.event)
            hashless(block) == signer_signature_hash(block) = <<>>
            others == {signer_signature_hash(given[k])[1] :
                          k \in {n \in DOMAIN given : ~hashless(given[n])}}
        IN  \A k \in DOMAIN given :
                hashless(given[k]) =>
                    /\ Count(published,
                             LAMBDA msg : /\ msg.kind = "BlockResponse"
                                          /\ msg.response = "Rejected"
                                          /\ msg.code = "InvalidSignatureHash"
                                          /\ msg.block = given[k]
                                          /\ msg.slot = SIGNER_SLOTS_PER_USER * signer_id
                                                            + BLOCK_SLOT_ID)
                          = Count(given, LAMBDA block : block = given[k])
                    /\ \A n \in DOMAIN submitted : submitted[n] # given[k]
                    /\ h.after.commands = h.before.commands
                    /\ h.after.keys \subseteq h.before.keys \cup others
                    /\ others = {} => h.same_table

\* A block without a hash was rejected in an event that proposed another block
\* as well.
C19_Witness ==
    \E i \in DOMAIN handled :
        LET given == EventBlocks(handled[i].event) IN
        /\ handled[i].event.type = "ProposedBlocks"
        /\ \E k \in DOMAIN given : signer_signature_hash(given[k]) = <<>>
        /\ \E k \in DOMAIN given : signer_signature_hash(given[k]) # <<>>
        /\ \E j \in DOMAIN published : published[j].code = "InvalidSignatureHash"

\* C20: calculate_coordinator is deterministic: two calls over the same signers
\* for which the node reports the same tip return the same id and public key,
\* whatever the state of the RunLoop at either call and whatever the order the
\* signers are iterated in.
C20_ElectionDeterministic ==
    \A i, j \in DOMAIN elected :
        elected[i].tip = elected[j].tip =>
            elected[i].coordinator = elected[j].coordinator

\* Two calls for the same tip, made in different states of the RunLoop with the
\* signers iterated in different orders, and the signer elected is not the
\* first one either order gives.
C20_Witness ==
    \E i, j \in DOMAIN elected :
        /\ elected[i].tip # <<>>
        /\ elected[i].tip = elected[j].tip
        /\ elected[i].order # elected[j].order
        /\ elected[i].state # elected[j].state
        /\ elected[i].coordinator[1] # elected[i].order[1]

\* C21: calculate_coordinator returns the signer whose digest of its public key
\* followed by the consensus hash is the least among the registered signers,
\* with that signer's own public key; when the node's tip cannot be fetched it
\* returns signer 0 with signer 0's public key.
C21_LeastDigestElected ==
    \A i \in DOMAIN elected :
        LET call == elected[i]
            id == call.coordinator[1]
            H(signer) == Sha256Sum(<<public_key(signer), call.tip[1]>>)
        IN  /\ call.coordinator[2] = public_key(id)
            /\ call.tip = <<>> => id = 0
            /\ call.tip # <<>> =>
                  /\ id \in SignerIds
                  /\ \A other \in SignerIds : H(id) <= H(other)

\* A signer other than signer 0, and other than the first one iterated, was
\* elected for a tip the node reported.
C21_Witness ==
    \E i \in DOMAIN elected :
        /\ elected[i].tip # <<>>
        /\ elected[i].coordinator[1] # 0
        /\ elected[i].coordinator[1] # elected[i].order[1]

\* The slot written, high * 2^16 + low, divided by SIGNER_SLOTS_PER_USER.
SlotRemainder(written) ==
    ((written.high % SIGNER_SLOTS_PER_USER) * HalfWord + written.low)
        % SIGNER_SLOTS_PER_USER
SlotQuotient(written) ==
    (written.high \div SIGNER_SLOTS_PER_USER) * HalfWord
        + (((written.high % SIGNER_SLOTS_PER_USER) * HalfWord + written.low)
              \div SIGNER_SLOTS_PER_USER)

\* C22: slot_id is total and injective: for every signer id and each of the 11
\* kinds of message it returns 11 * id + offset, offset being 0 for DkgBegin up
\* to 9 for SignatureShareResponse and 10 for a block response, and two calls
\* that differ in the id or in the kind return different slots.
C22_SlotIdTotalInjective ==
    /\ pc # "panicked"
    /\ \A i \in DOMAIN published :
          /\ SlotQuotient(published[i]) = published[i].id
          /\ SlotRemainder(published[i]) = message_slot_offset(published[i].kind)
    /\ \A i, j \in DOMAIN published :
          published[i].high = published[j].high /\ published[i].low = published[j].low =>
              /\ published[i].id = published[j].id
              /\ published[i].kind = published[j].kind

\* C23: every POST request next_event has handled was answered with an empty
\* HTTP 200 before next_event returned, whatever its url and its body.
C23_EveryPostAnswered200 ==
    \A i \in DOMAIN answered :
        answered[i].request.method = "POST" => answered[i].response = <<200>>

\* C24: main_loop exits only because the stop flag was set or because a send to
\* a registered consumer failed.
C24_ExitOnlyStoppedOrSendFailed ==
    loop_pc = "exited" => exit_reason \in {"stopped", "send_failed"}

\* C25: once the stop signaler has been sent the stop flag stays set, and a
\* main_loop that is running, blocked in recv or handling a request, eventually
\* exits.
C25_StopEventuallyExits ==
    /\ [][stop_signal => stop_signal']_vars
    /\ (stop_signal /\ loop_pc \in {"top", "recv", "handling"}) ~> (loop_pc = "exited")

\* The events next_event has returned, in the order it returned them.
RECURSIVE EventsOf(_)
EventsOf(log) ==
    IF log = <<>> THEN <<>>
    ELSE IF Head(log).ok THEN <<Head(log).value>> \o EventsOf(Tail(log))
    ELSE EventsOf(Tail(log))

IsPrefix(short, long) ==
    Len(short) <= Len(long) /\ short = SubSeq(long, 1, Len(short))

C27_BindReturns ==
    /\ driver # "panicked"
    /\ \A i \in DOMAIN returned :
          /\ returned[i].call = "bind" => returned[i].ok /\ <<returned[i].value>> = http_server
          /\ returned[i].call # "bind" => ~returned[i].ok /\ returned[i].value = "NotBound"

\* C28: whichever call of the chain-node client is made, a response whose
\* status is not 2xx makes it return the error RequestFailure with that status,
\* and no success value.
C28_Non2xxIsRequestFailure ==
    \A i \in DOMAIN requested :
        requested[i].response.status \div 100 # 2
            => /\ ~requested[i].result.ok
               /\ requested[i].result.error = "RequestFailure"
               /\ requested[i].result.status = requested[i].response.status

\* A transaction was submitted and answered 404, then the pox data was asked
\* for and answered 304: both calls failed.
C28_Witness ==
    /\ Len(requested) = 2
    /\ requested[1].call = "submit_tx" /\ requested[1].response.status = 404
    /\ requested[2].call = "get_pox_data" /\ requested[2].response.status = 304
    /\ ~requested[1].result.ok /\ ~requested[2].result.ok

\* The calls that decode the body of the response.
Decoding ==
    {"get_stacks_tip_consensus_hash", "get_pox_data",
     "read_only_contract_call_with_retry"}

Undecodable(r) ==
    /\ r.call \in Decoding
    /\ r.response.status \div 100 = 2
    /\ r.response.body \in {"not_json", "missing_field", "wrong_type"}

\* C29: a 2xx response whose body cannot be decoded (not JSON, a missing field,
\* a field of the wrong type) makes the call fail, with ReqwestError; only
\* get_stacks_tip_consensus_hash, given JSON whose stacks_tip_consensus_hash is
\* missing or not a string, fails with UnexpectedResponseFormat.
C29_UndecodableIsReqwestError ==
    \A i \in DOMAIN requested :
        Undecodable(requested[i])
            => /\ ~requested[i].result.ok
               /\ requested[i].result.error =
                     IF /\ requested[i].call = "get_stacks_tip_consensus_hash"
                        /\ requested[i].response.body # "not_json"
                     THEN "UnexpectedResponseFormat"
                     ELSE "ReqwestError"

\* C29 as claimed: every such call fails with UnexpectedResponseFormat.
C29_UndecodableIsUnexpectedFormat ==
    \A i \in DOMAIN requested :
        Undecodable(requested[i])
            => /\ ~requested[i].result.ok
               /\ requested[i].result.error = "UnexpectedResponseFormat"

\* The pox data came with a field of the wrong type, and the tip without its
\* consensus hash, both with status 200.
C29_Witness ==
    /\ Len(requested) = 2
    /\ requested[1].call = "get_pox_data"
    /\ requested[1].response = [status |-> 200, body |-> "wrong_type"]
    /\ requested[1].result.error = "ReqwestError"
    /\ requested[2].call = "get_stacks_tip_consensus_hash"
    /\ requested[2].response = [status |-> 200, body |-> "missing_field"]
    /\ requested[2].result.error = "UnexpectedResponseFormat"

\* initialize pushed Dkg onto the queue in this pass.
DkgPushed ==
    /\ init_log # <<>>
    /\ init_log[1].after = <<DkgCommand>> \o init_log[1].before

\* The validation-response handler enqueued Sign in this pass, onto an empty
\* queue.
SignEnqueued ==
    /\ handled # <<>>
    /\ IsValidationResponse(handled[1])
    /\ handled[1].before.commands = <<>>
    /\ handled[1].after.commands =
          <<SignCommand(handled[1].event.response.block, FALSE, <<>>)>>

RoundOpened(type, kind) ==
    /\ state = type
    /\ \E i \in DOMAIN started : started[i].type = type
    /\ \E i \in DOMAIN published : published[i].kind = kind

\* C30: a command the run loop enqueues itself during a pass and leaves at the
\* head of the queue is popped in that same pass, in state Idle: the Dkg pushed
\* by initialize, and the Sign the validation-response handler enqueues onto an
\* empty queue while the state is Idle.  When the pass returns the state is Dkg
\* or Sign and the round-opening packet has been published in that pass.
C30_SelfEnqueuedStartedInPass ==
    /\ DkgPushed
         => /\ popped = <<[command |-> DkgCommand, state |-> "Idle"]>>
            /\ pc = "passed" => RoundOpened("Dkg", "DkgBegin")
    /\ (SignEnqueued /\ handled[1].after.state = "Idle")
         => /\ popped = <<[command |-> Head(handled[1].after.commands),
                           state |-> "Idle"]>>
            /\ pc = "passed" => RoundOpened("Sign", "NonceRequest")

\* C30 as claimed: the pass that enqueued the command returns with the state
\* Idle, nothing started and no round-opening packet published.
C30_SelfEnqueuedNotStarted ==
    (pc = "passed" /\ (DkgPushed \/ SignEnqueued))
        => /\ state = "Idle"
           /\ started = <<>>
           /\ \A i \in DOMAIN published : ~IsRoundOpening(published[i])

\* A pass in which the handler enqueued Sign while Idle and that returned in
\* state Sign with the nonce request published.
C30_Witness ==
    /\ SignEnqueued /\ handled[1].after.state = "Idle"
    /\ pc = "passed"
    /\ RoundOpened("Sign", "NonceRequest")

\* The pass started a signing round: start_signing_round succeeded for the
\* command it popped.
SigningRoundStarted ==
    /\ popped # <<>> /\ popped[1].command.type = "Sign"
    /\ \E i \in DOMAIN assigned : assigned[i].to = "Sign"

\* C31: this signer starts a signing round at most once per block hash: a pass
\* starts none for a hash for which an earlier pass has started one.
C31_StartedOncePerHash ==
    [][SigningRoundStarted'
          => signer_signature_hash(popped'[1].command.block)[1] \notin started_ever]_vars

\* C32: between passes, every entry that holds a vote has signing_round true.
C32_VotedIsSigningRound ==
    \A h \in DOMAIN blocks : blocks[h].vote # <<>> => blocks[h].signing_round

\* C33: when the pass leaves the block table to process_next_command as it found
\* it and pops a Sign command for a block whose entry has signing_round true,
\* execute_command aborts: start_signing_round is not called, no round-opening
\* packet is published, and the state (Idle) and the block table stay as they
\* were.
C33_SignAbortedWhenSigning ==
    [][\A i \in DOMAIN popped' :
          LET hashed == signer_signature_hash(popped'[i].command.block) IN
          (/\ popped'[i].command.type = "Sign"
           /\ handled' # <<>> /\ handled'[1].same_table
           /\ hashed # <<>> /\ hashed[1] \in DOMAIN blocks
           /\ blocks[hashed[1]].signing_round)
              => /\ started' = <<>>
                 /\ \A j \in DOMAIN published' : ~IsRoundOpening(published'[j])
                 /\ state' = popped'[i].state
                 /\ blocks' = blocks]_vars

\* A Sign command for a block being signed was popped and aborted: the entry
\* still has signing_round true and nothing was started.
C33_Witness ==
    /\ popped # <<>> /\ popped[1].command = SignCommand(1, FALSE, <<>>)
    /\ handled # <<>> /\ handled[1].same_table
    /\ handled[1].before.keys = DOMAIN blocks
    /\ \A h \in DOMAIN blocks : blocks[h].signing_round
    /\ blocks # EmptyMap
    /\ started = <<>>
    /\ state = "Idle"

\* C34: a pass fails to return only when the coordinator's start was called and
\* failed: a pass in which no start was called returns.
C34_PassReturns ==
    pc = "spinning" => started # <<>>

\* The verified nonce requests of the event whose message is a block of
\* derivable hash that the table did not hold when the pass began.
UnknownBlockRequests(h) ==
    {i \in DOMAIN h.event.messages :
        LET m == h.event.messages[i]
            decoded == read_next(m.message)
        IN  /\ m.kind = "NonceRequest" /\ m.verifies
            /\ decoded # <<>>
            /\ signer_signature_hash(decoded[1]) # <<>>
            /\ signer_signature_hash(decoded[1])[1] \notin h.before.keys}

\* C35: a verified nonce request for a block absent from the table creates an
\* entry with the request stashed, signing_round true, no verdict and no vote,
\* submits the block once and is not handed to the crypto layer in that pass;
\* and the next verdict for that block, if it is Ok and finds the block in the
\* table, does not add a Sign command to the queue.
C35_UnknownBlockRequestStashed ==
    [][\A k \in DOMAIN handled' :
          LET h == handled'[k] IN
          /\ (h.event.type = "SignerMessages" /\ results_log' = <<>>)
               => \A i \in UnknownBlockRequests(h) :
                     LET block == read_next(h.event.messages[i].message)[1]
                         hash == signer_signature_hash(block)[1]
                     IN  /\ hash \in DOMAIN blocks'
                         /\ blocks'[hash].nonce_request # <<>>
                         /\ blocks'[hash].signing_round
                         /\ blocks'[hash].valid = <<>>
                         /\ blocks'[hash].vote = <<>>
                         /\ Cardinality({j \in DOMAIN submitted' :
                                            submitted'[j] = block}) = 1
                         /\ \A j \in DOMAIN crypto_in' :
                               crypto_in'[j].kind # "NonceRequest"
          /\ (/\ IsValidationResponse(h) /\ h.event.response.ok
              /\ signer_signature_hash(h.event.response.block) # <<>>
              /\ signer_signature_hash(h.event.response.block)[1] \in unknown_pending
              /\ signer_signature_hash(h.event.response.block)[1] \in h.before.keys)
               => h.after.commands = h.before.commands]_vars

\* queue with at most one command appended to it
Appended(queue) == {queue} \cup {Append(queue, c[1]) : c \in CommandInputs \ {<<>>}}

\* C36: the queue is first in, first out.  In every pass the caller's command
\* and the handler's Sign command are appended at the back, in that order, and
\* only initialize puts a command (Dkg) at the front; the command popped is the
\* head of the queue as the handler left it, the rest of the queue stays in
\* its order, and the round started is the popped command's.
C36_QueueIsFifo ==
    [][/\ handled' = <<>> => commands' \in Appended(commands)
       /\ \A k \in DOMAIN handled' :
             LET h == handled'[k] IN
             /\ \/ h.before.commands \in Appended(commands)
                \/ /\ init_log' # <<>>
                   /\ \E q \in Appended(commands) :
                         h.before.commands = <<DkgCommand>> \o q
             /\ h.after.commands \in Appended(h.before.commands)
             /\ IF popped' = <<>>
                THEN commands' = h.after.commands
                ELSE /\ popped'[1].command = Head(h.after.commands)
                     /\ commands' = Tail(h.after.commands)
                     /\ \A i \in DOMAIN started' :
                           /\ started'[i].type = popped'[1].command.type
                           /\ started'[i].block = popped'[1].command.block]_vars

\* A pass popped and started the first of two different commands and left the
\* second in the queue.
C36_Witness ==
    /\ handled # <<>> /\ Len(handled[1].after.commands) = 2
    /\ handled[1].after.commands[1] # handled[1].after.commands[2]
    /\ popped # <<>> /\ popped[1].command = handled[1].after.commands[1]
    /\ started # <<>> /\ pc = "passed"
    /\ commands = <<handled[1].after.commands[2]>>

\* C37: between passes, every entry that holds a vote holds a verdict, and the
\* vote is the hash the entry is kept under or that hash followed by 'n'.
C37_VoteHasVerdict ==
    \A h \in DOMAIN blocks :
        blocks[h].vote # <<>>
            => /\ blocks[h].valid # <<>>
               /\ Len(h) = HashLen
               /\ blocks[h].vote[1] \in {h, Append(h, VoteNoByte)}

\* An entry with the verdict false holds a vote against the block: its hash
\* followed by 'n'.
C37_Witness ==
    \E h \in DOMAIN blocks :
        /\ blocks[h].valid = <<FALSE>>
        /\ blocks[h].vote = <<Append(h, VoteNoByte)>>

IsNonceRequest(packet) == packet.kind = "NonceRequest"

\* C38: every nonce request handed to handle_packets, forwarded or re-injected,
\* carries as its message the vote the table holds for the block, a hash or a
\* hash and 'n', and never the bytes of a block; and the packet it came in had
\* passed verification.
C38_NonceRequestCarriesVote ==
    \A i \in DOMAIN crypto_in :
        IsNonceRequest(crypto_in[i])
            => /\ crypto_in[i].vote = <<crypto_in[i].message>>
               /\ Len(crypto_in[i].message) \in {HashLen, HashLen + 1}
               /\ read_next(crypto_in[i].message) = <<>>
               /\ crypto_in[i].verified

\* A pass re-injected a stashed nonce request with the vote it has recorded.
C38_Witness ==
    /\ Count(crypto_in, IsReinjected) = 1
    /\ Count(crypto_in, IsNonceRequest) = 1
    /\ \E h \in DOMAIN blocks : blocks[h].vote # <<>>

\* C39: a pass removes an entry from the block table only if it publishes a
\* BlockResponse for the entry's block.
C39_RemovedOnlyWithResponse ==
    [][\A h \in DOMAIN blocks \ DOMAIN blocks' :
          \E i \in DOMAIN published' :
              /\ published'[i].kind = "BlockResponse"
              /\ published'[i].block = blocks[h].block]_vars

\* C40: once the stop flag is set, no step sends an event to a consumer.
C40_NothingForwardedAfterStop ==
    [][stop_signal
          => \A i \in DOMAIN out_channels \cap DOMAIN out_channels' :
                out_channels'[i].received = out_channels[i].received]_vars

====
